---------------------------- MODULE Spec2Model ----------------------------
(***************************************************************************)
(* A model of scripts/alineador.py: the consensus-guided correction and    *)
(* inversion-resolution engine (load_mutations, the FASTA helpers, the     *)
(* quality gate, and align_with_reference_and_number with its stages).     *)
(*                                                                         *)
(* Representation.  A character is a one-character string; a sequence, a   *)
(* FASTA line and a header are tuples of characters; a text or a file is   *)
(* a tuple of lines (what splitlines() / iterating the file yields, the    *)
(* line terminator already removed).  Python's None is the string "None".  *)
(* A float that the code obtains as a quotient of two integers is kept as  *)
(* the pair <<numerator, denominator>> and compared by cross               *)
(* multiplication.                                                          *)
(***************************************************************************)
EXTENDS Integers, Sequences, FiniteSets, TLC

VARIABLES
    fn_called,    \* pure-function specifications: the function that has run
    fn_args,      \*   its arguments
    fn_result,    \*   what it returned
    muts,         \* load_mutations: the dict built so far
    tsv_rows,     \* load_mutations: the (pos, verdict) pairs of the rows read
    pc,           \* main: "idle", at an aligner run ("mafft1", "mafft2"), "done"
    RES_DIR,      \* Resultados: n |-> text of Fusion_Cloroplastos_<n>.fasta
    DISCARD_DIR,  \* descartesalineamiento: n |-> text of Fusion_Cloroplastos_<n>.fasta
    REF_DIR,      \* cloroplasto_referencia/Fusion_Cloroplastos_1.fasta: [exists, text]
    files,        \* the temporary files of align_with_reference_and_number: name |-> text
    loc,          \* the arguments and locals of the run of main in progress or just ended
    ret,          \* how that run ended: [kind, n, stage]
    calls         \* runs of main started so far

fnVars == <<fn_called, fn_args, fn_result>>
lmVars == <<muts, tsv_rows>>
pipeVars == <<pc, RES_DIR, DISCARD_DIR, REF_DIR, files, loc, ret, calls>>
vars == <<fn_called, fn_args, fn_result, muts, tsv_rows,
          pc, RES_DIR, DISCARD_DIR, REF_DIR, files, loc, ret, calls>>

None == "None"

(***************************************************************************)
(* Bounds of the model.                                                    *)
(***************************************************************************)
MaxLen == 2        \* columns of an enumerated alignment
MaxCells == 4      \* characters in the prior rows of an enumerated alignment
WrapWidth == 2     \* characters per sequence line of the aligner's output

(***************************************************************************)
(* Strings.                                                                *)
(***************************************************************************)
Bases == <<"A", "C", "G", "T">>
BaseSet == {"A", "C", "G", "T"}

\* str.upper() on one character
upper(ch) ==
    CASE ch = "a" -> "A" [] ch = "c" -> "C" [] ch = "g" -> "G"
      [] ch = "t" -> "T" [] ch = "n" -> "N" [] ch = "r" -> "R"
      [] OTHER -> ch

str_upper(s) == [i \in DOMAIN s |-> upper(s[i])]

\* s[a:b] of Python for 0 <= a, any b (0-based, b exclusive, clipped)
Slice(s, a, b) ==
    LET hi == IF b > Len(s) THEN Len(s) ELSE b
    IN  IF a >= hi THEN << >> ELSE SubSeq(s, a + 1, hi)

RECURSIVE Join(_)
\* "".join(parts)
Join(parts) ==
    IF parts = << >> THEN << >> ELSE Head(parts) \o Join(Tail(parts))

RECURSIVE lstrip(_)
lstrip(s) ==
    IF s # << >> /\ Head(s) = " " THEN lstrip(Tail(s)) ELSE s

RECURSIVE rstrip(_)
rstrip(s) ==
    IF s # << >> /\ s[Len(s)] = " " THEN rstrip(SubSeq(s, 1, Len(s) - 1)) ELSE s

\* str.strip(): the model's only whitespace is the blank
strip(s) == rstrip(lstrip(s))

\* line.startswith(">")
IsHeader(line) == line # << >> /\ Head(line) = ">"

\* the tuples of T with a character of S put in front
Extend(S, T) == {<<c>> \o t : c \in S, t \in T}

\* the set of tuples over S of length exactly n
RECURSIVE TuplesOf(_, _)
TuplesOf(S, n) ==
    IF n = 0 THEN {<< >>}
    ELSE Extend(S, TuplesOf(S, n - 1))

(***************************************************************************)
(* _parse_fasta_string: the entries <<header, sequence>> of a FASTA text.  *)
(* st is the loop's state: entries, header (None before the first header)  *)
(* and seq_parts.                                                          *)
(***************************************************************************)
RECURSIVE ParseLines(_, _, _, _)
ParseLines(lines, entries, header, seq_parts) ==
    IF lines = << >>
    THEN IF header # <<None>> THEN Append(entries, <<header, Join(seq_parts)>>)
         ELSE entries
    ELSE LET line == Head(lines) IN
         IF IsHeader(line)
         THEN ParseLines(Tail(lines),
                         IF header # <<None>>
                         THEN Append(entries, <<header, Join(seq_parts)>>)
                         ELSE entries,
                         line, << >>)
         ELSE ParseLines(Tail(lines), entries, header,
                         IF header # <<None>>
                         THEN Append(seq_parts, strip(line))
                         ELSE seq_parts)

_parse_fasta_string(s) == ParseLines(s, << >>, <<None>>, << >>)

(***************************************************************************)
(* _assess_alignment_quality                                               *)
(***************************************************************************)
\* counts[u] of consensus_base / _consensus_from_entries for one column
CountOf(chars, b) == Cardinality({i \in DOMAIN chars : upper(chars[i]) = b})

RECURSIVE BestBase(_, _, _, _)
\* the loop "for b in ('A','C','G','T'): if counts[b] > best_count: ..."
BestBase(chars, k, best_base, best_count) ==
    IF k > Len(Bases) THEN <<best_base, best_count>>
    ELSE IF CountOf(chars, Bases[k]) > best_count
         THEN BestBase(chars, k + 1, Bases[k], CountOf(chars, Bases[k]))
         ELSE BestBase(chars, k + 1, best_base, best_count)

\* the last of the bases with the highest count instead of the first
consensus_baseMut(chars) ==
    LET top == {k \in DOMAIN Bases :
                   /\ CountOf(chars, Bases[k]) > 0
                   /\ \A j \in DOMAIN Bases :
                          CountOf(chars, Bases[k]) >= CountOf(chars, Bases[j])}
    IN  IF top = {} THEN None
        ELSE Bases[CHOOSE k \in top : \A j \in top : k >= j]

consensus_base(chars) ==
    LET r == BestBase(chars, 1, None, 0)
    IN  IF r[2] > 0 THEN r[1] ELSE None

\* the newest-row characters the gate leaves out of 'considered'
GateSkips(q) == q \in {"-", ".", "N"}

RECURSIVE GateLoop(_, _, _, _, _)
\* the loop over the columns: <<matches, considered>>
GateLoop(prev, new, i, matches, considered) ==
    IF i > Len(new) THEN <<matches, considered>>
    ELSE LET cons == consensus_base([r \in DOMAIN prev |-> prev[r][i]])
             q == upper(new[i])
         IN  IF cons = None \/ GateSkips(q)
             THEN GateLoop(prev, new, i + 1, matches, considered)
             ELSE GateLoop(prev, new, i + 1,
                           IF q = cons THEN matches + 1 ELSE matches,
                           considered + 1)

\* ok = identity >= min_identity, both quotients of integers
VerdictMut(matches, considered, min_identity) ==
    matches * min_identity[2] > min_identity[1] * considered
Verdict(matches, considered, min_identity) ==
    matches * min_identity[2] >= min_identity[1] * considered

\* returns (ok, identity, considered, L); identity 0.0 is <<0, 1>>
_assess_alignment_quality(mafft_output, min_identity) ==
    LET entries == _parse_fasta_string(mafft_output) IN
    IF Len(entries) < 2
    THEN [ok |-> FALSE, identity |-> <<0, 1>>, considered |-> 0, L |-> 0]
    ELSE LET prev == [k \in 1..(Len(entries) - 1) |-> entries[k][2]]
             new == entries[Len(entries)][2]
             L == Len(new)
         IN  IF L = 0 \/ \E k \in DOMAIN prev : Len(prev[k]) # L
             THEN [ok |-> FALSE, identity |-> <<0, 1>>, considered |-> 0, L |-> L]
             ELSE LET mc == GateLoop(prev, new, 1, 0, 0) IN
                  IF mc[2] = 0
                  THEN [ok |-> FALSE, identity |-> <<0, 1>>,
                        considered |-> 0, L |-> L]
                  ELSE [ok |-> Verdict(mc[1], mc[2], min_identity),
                        identity |-> mc, considered |-> mc[2], L |-> L]

(***************************************************************************)
(* The aligner's output as a text: one header line per row, the row        *)
(* wrapped at `width` characters per line.                                 *)
(***************************************************************************)
RECURSIVE Wrap(_, _)
Wrap(row, width) ==
    IF Len(row) <= width THEN <<row>>
    ELSE <<SubSeq(row, 1, width)>> \o Wrap(SubSeq(row, width + 1, Len(row)), width)

RECURSIVE FastaText(_, _)
\* rows: a tuple of <<header, sequence>>
FastaText(rows, width) ==
    IF rows = << >> THEN << >>
    ELSE <<Head(rows)[1]>> \o Wrap(Head(rows)[2], width)
         \o FastaText(Tail(rows), width)

HeaderOf(k) == <<">", "s">>

(***************************************************************************)
(* Inputs of the quality-gate specification: every alignment of n prior    *)
(* rows and a newest row of L columns, n * L <= MaxCells, L <= MaxLen;     *)
(* the same with the first prior row one character short; and the texts    *)
(* of fewer than two records.                                              *)
(***************************************************************************)
PrevChars == {"A", "c", "-"}
NewChars == {"A", "C", "N", "-", "R"}
Thresholds == {<<0, 1>>, <<1, 2>>, <<19, 20>>, <<1, 1>>}

Shapes == {<<n, L>> \in (1..MaxCells) \X (1..MaxLen) : n * L <= MaxCells}

RowsOf(seqs) == [k \in DOMAIN seqs |-> <<HeaderOf(k), seqs[k]>>]

GateAlignments ==
    UNION { { prev \o <<new>> : prev \in TuplesOf(TuplesOf(PrevChars, sh[2]), sh[1]),
                                new \in TuplesOf(NewChars, sh[2]) } : sh \in Shapes }

Ragged(seqs) == <<SubSeq(seqs[1], 1, Len(seqs[1]) - 1)>> \o Tail(seqs)

GateTexts ==
    { FastaText(RowsOf(a), WrapWidth) : a \in GateAlignments }
    \cup { FastaText(RowsOf(Ragged(a)), WrapWidth) : a \in GateAlignments }
    \cup { << >>, <<<<"A">>>>, FastaText(RowsOf(<<<<"A">>>>), WrapWidth) }

(***************************************************************************)
(* load_mutations.  A line of the tally table is the tuple of its          *)
(* tab-separated fields, a field a tuple of characters (the CHROM field a  *)
(* tuple holding one token).  The loop over the lines is the action        *)
(* LoadLine; tsv_rows records, for the statements below, the position and  *)
(* the kind of every well-formed row with total > 0 that was read.         *)
(***************************************************************************)
MaxPos == 2        \* positions named by the rows of a tally table
MaxDepth == 3      \* the highest total of the counts of a tally row

DigitChars == <<"0", "1", "2", "3", "4", "5", "6", "7", "8", "9">>
IsDigit(c) == \E d \in DOMAIN DigitChars : DigitChars[d] = c
DigitVal(c) == (CHOOSE d \in DOMAIN DigitChars : DigitChars[d] = c) - 1

RECURSIVE DigitsValue(_, _)
DigitsValue(f, acc) ==
    IF f = << >> THEN acc ELSE DigitsValue(Tail(f), 10 * acc + DigitVal(Head(f)))

\* int(field): <<TRUE, value>>, or <<FALSE, 0>> for ValueError
ParseInt(field) ==
    LET t == strip(field)
        signed == t # << >> /\ Head(t) \in {"-", "+"}
        digits == IF signed THEN Tail(t) ELSE t
    IN  IF digits = << >> \/ \E i \in DOMAIN digits : ~IsDigit(digits[i])
        THEN <<FALSE, 0>>
        ELSE <<TRUE, IF signed /\ Head(t) = "-"
                     THEN 0 - DigitsValue(digits, 0)
                     ELSE DigitsValue(digits, 0)>>

RECURSIVE ToDigits(_)
\* the decimal text of n >= 0, as BAMtsv.py writes a count
ToDigits(n) ==
    IF n < 10 THEN <<DigitChars[n + 1]>>
    ELSE ToDigits(n \div 10) \o <<DigitChars[(n % 10) + 1]>>

\* not line.strip() or line.startswith("#") or line.startswith("CHROM")
LineSkipped(line) ==
    \/ \A k \in DOMAIN line : strip(line[k]) = << >>
    \/ (line # << >> /\ line[1] # << >> /\ line[1][1] \in {"#", "CHROM"})

\* the try block: cols[1..7] as integers; ok is FALSE on ValueError or
\* IndexError
ParseRow(cols) ==
    IF Len(cols) < 8 \/ \E k \in 2..8 : ~ParseInt(cols[k])[1]
    THEN [ok |-> FALSE, pos |-> 0, dot |-> 0, comma |-> 0,
          A |-> 0, C |-> 0, G |-> 0, T |-> 0]
    ELSE [ok |-> TRUE,
          pos |-> ParseInt(cols[2])[2], dot |-> ParseInt(cols[3])[2],
          comma |-> ParseInt(cols[4])[2],
          A |-> ParseInt(cols[5])[2], C |-> ParseInt(cols[6])[2],
          G |-> ParseInt(cols[7])[2], T |-> ParseInt(cols[8])[2]]

\* (dot + comma) / total < 0.5 for total # 0
BelowHalf(ref, total) == IF total > 0 THEN 2 * ref < total ELSE 2 * ref > total

\* the reference does not dominate: (dot+comma == 0) or (dot+comma)/total < 0.5
RecordsMutationMut(dot, comma, total) ==
    (dot + comma = 0) \/ ~BelowHalf(total - (dot + comma), total)
RecordsMutation(dot, comma, total) ==
    (dot + comma = 0) \/ BelowHalf(dot + comma, total)

\* the last index of the maximum
MajorityBaseMut(counts) ==
    Bases[CHOOSE i \in 1..4 : /\ \A j \in 1..4 : counts[i] >= counts[j]
                              /\ \A j \in (i + 1)..4 : counts[j] < counts[i]]

\* bases[max(range(4), key=lambda i: counts[i])]: the first index of the maximum
MajorityBase(counts) ==
    Bases[CHOOSE i \in 1..4 : /\ \A j \in 1..4 : counts[i] >= counts[j]
                              /\ \A j \in 1..(i - 1) : counts[j] < counts[i]]

DictSet(d, key, val) ==
    [k \in DOMAIN d \cup {key} |-> IF k = key THEN val ELSE d[k]]

\* one iteration of the loop of load_mutations on `line`: the dict afterwards
load_mutations_line(m, line) ==
    IF LineSkipped(line) THEN m
    ELSE LET r == ParseRow(line) IN
         IF ~r.ok THEN m
         ELSE LET total == r.dot + r.comma + r.A + r.C + r.G + r.T IN
              IF total = 0 THEN m
              ELSE IF RecordsMutation(r.dot, r.comma, total)
                   THEN DictSet(m, r.pos, MajorityBase(<<r.A, r.C, r.G, r.T>>))
                   ELSE m

PosFields == {ToDigits(n) : n \in 1..MaxPos}
\* the counts (dot, comma, A, C, G, T) of a row, their total at most MaxDepth
CountVectors ==
    {v \in [1..6 -> 0..MaxDepth] : v[1] + v[2] + v[3] + v[4] + v[5] + v[6] <= MaxDepth}
WellFormedLines ==
    {<<<<"chr1">>, p, ToDigits(v[1]), ToDigits(v[2]), ToDigits(v[3]),
       ToDigits(v[4]), ToDigits(v[5]), ToDigits(v[6])>> :
        p \in PosFields, v \in CountVectors}
OtherLines ==
    { << << >> >>,
      <<<<"#">>, <<"1">>, <<"0">>, <<"0">>, <<"1">>, <<"0">>, <<"0">>, <<"0">>>>,
      <<<<"CHROM">>, <<"P">>, <<".">>, <<",">>, <<"A">>, <<"C">>, <<"G">>, <<"T">>>>,
      <<<<"chr1">>, <<"1">>, <<"x">>, <<"0">>, <<"1">>, <<"0">>, <<"0">>, <<"0">>>>,
      <<<<"chr1">>, <<"x">>, <<"0">>, <<"0">>, <<"1">>, <<"0">>, <<"0">>, <<"0">>>>,
      <<<<"chr1">>, <<"1">>, <<"0">>, <<"0">>, <<"1">>>>,
      <<<<"chr1">>, <<"1">>, <<" ", "0">>, <<"0">>, <<"1">>, <<"0">>, <<"0">>, <<"0">>>> }
TallyLines == WellFormedLines \cup OtherLines

\* what the statements need of a line: the position and whether the
\* reference holds at least half of the evidence, for a well-formed row
\* with total > 0
RowTotal(r) == r.dot + r.comma + r.A + r.C + r.G + r.T
RowSeen(line) ==
    IF LineSkipped(line) \/ ~ParseRow(line).ok THEN {}
    ELSE LET r == ParseRow(line) IN
         IF RowTotal(r) <= 0 THEN {}
         ELSE {<<r.pos, 2 * (r.dot + r.comma) >= RowTotal(r)>>}

(***************************************************************************)
(* Rational numbers <<n, d>>, d > 0, for the quotients and the float       *)
(* literals of the code (0.35 is <<7, 20>>, 0.25 is <<1, 4>>).             *)
(***************************************************************************)
RatLe(a, b) == a[1] * b[2] <= b[1] * a[2]
RatAdd(a, b) == <<a[1] * b[2] + b[1] * a[2], a[2] * b[2]>>
RatMax(a, b) == IF RatLe(a, b) THEN b ELSE a
RatMin(a, b) == IF RatLe(a, b) THEN a ELSE b
Max(a, b) == IF a >= b THEN a ELSE b
Min(a, b) == IF a <= b THEN a ELSE b

(***************************************************************************)
(* _ungap, _map_alncol_to_pos, _consensus_from_entries                     *)
(***************************************************************************)
RECURSIVE _ungap(_)
\* s.replace("-", "").replace(".", "")
_ungap(s) ==
    IF s = << >> THEN << >>
    ELSE IF Head(s) \in {"-", "."} THEN _ungap(Tail(s))
         ELSE <<Head(s)>> \o _ungap(Tail(s))

\* u in "ACGTN"
IsNucleotide(u) == u \in {"A", "C", "G", "T", "N"}

\* col2pos, the list index i (0-based) kept at tuple index i + 1
_map_alncol_to_pos(seq_aln) ==
    [i \in DOMAIN seq_aln |->
        IF IsNucleotide(upper(seq_aln[i]))
        THEN Cardinality({j \in 1..i : IsNucleotide(upper(seq_aln[j]))})
        ELSE -1]

\* [raised |-> TRUE] is ValueError; otherwise value is the consensus string
\* the counts taken on the characters as written, without upper()
_consensus_from_entriesMut(aligned_seqs) ==
    IF aligned_seqs = << >> THEN [raised |-> FALSE, value |-> << >>]
    ELSE LET L == Len(aligned_seqs[1]) IN
         IF \E k \in DOMAIN aligned_seqs : Len(aligned_seqs[k]) # L
         THEN [raised |-> TRUE, value |-> << >>]
         ELSE [raised |-> FALSE,
               value |-> [i \in 1..L |->
                   IF \E b \in BaseSet :
                         /\ \E k \in DOMAIN aligned_seqs : aligned_seqs[k][i] = b
                         /\ \A c \in BaseSet :
                               Cardinality({k \in DOMAIN aligned_seqs : aligned_seqs[k][i] = b})
                                 >= Cardinality({k \in DOMAIN aligned_seqs : aligned_seqs[k][i] = c})
                   THEN CHOOSE b \in BaseSet :
                         /\ \E k \in DOMAIN aligned_seqs : aligned_seqs[k][i] = b
                         /\ \A c \in BaseSet :
                               Cardinality({k \in DOMAIN aligned_seqs : aligned_seqs[k][i] = b})
                                 >= Cardinality({k \in DOMAIN aligned_seqs : aligned_seqs[k][i] = c})
                   ELSE "N"]]

_consensus_from_entries(aligned_seqs) ==
    IF aligned_seqs = << >> THEN [raised |-> FALSE, value |-> << >>]
    ELSE LET L == Len(aligned_seqs[1]) IN
         IF \E k \in DOMAIN aligned_seqs : Len(aligned_seqs[k]) # L
         THEN [raised |-> TRUE, value |-> << >>]
         ELSE [raised |-> FALSE,
               value |-> [i \in 1..L |->
                   LET r == BestBase([k \in DOMAIN aligned_seqs |-> aligned_seqs[k][i]],
                                     1, None, 0)
                   IN  IF r[2] > 0 THEN r[1] ELSE "N"]]

(***************************************************************************)
(* _kmer_jaccard: <<inter, uni>>, <<0, 1>> for 0.0                         *)
(***************************************************************************)
\* kmerset(s): the k-mers over A/C/G/T of the upper-cased s
kmerset(s, k) ==
    {Slice(s, i, i + k) : i \in {j \in 0..(Len(s) - k) :
        \A x \in 1..k : s[j + x] \in BaseSet}}

\* the k-mers taken from the sequences as written, without upper()
_kmer_jaccardMut(s1, s2, k) ==
    IF Len(s1) < k \/ Len(s2) < k THEN <<0, 1>>
    ELSE IF kmerset(s1, k) = {} /\ kmerset(s2, k) = {} THEN <<0, 1>>
         ELSE <<Cardinality(kmerset(s1, k) \cap kmerset(s2, k)),
                Cardinality(kmerset(s1, k) \cup kmerset(s2, k))>>

_kmer_jaccard(s1, s2, k) ==
    LET u1 == str_upper(s1)
        u2 == str_upper(s2)
    IN  IF Len(u1) < k \/ Len(u2) < k THEN <<0, 1>>
        ELSE LET A == kmerset(u1, k)
                 B == kmerset(u2, k)
             IN  IF A = {} /\ B = {} THEN <<0, 1>>
                 ELSE <<Cardinality(A \cap B), Cardinality(A \cup B)>>

(***************************************************************************)
(* revcomp and the flipped sequence of _flip_segment_in_oneline            *)
(***************************************************************************)
\* str.maketrans("ACGTacgtnN", "TGCAtgcanN")
complement(ch) ==
    CASE ch = "A" -> "T" [] ch = "C" -> "G" [] ch = "G" -> "C" [] ch = "T" -> "A"
      [] ch = "a" -> "t" [] ch = "c" -> "g" [] ch = "g" -> "c" [] ch = "t" -> "a"
      [] OTHER -> ch

revcompMut(seq) == [i \in DOMAIN seq |-> complement(seq[i])]
revcomp(seq) == [i \in DOMAIN seq |-> complement(seq[Len(seq) + 1 - i])]

\* a + revcomp(b) + c for the slices of s at start_1based, end_1based
FlipSegment(s, start_1based, end_1based) ==
    Slice(s, 0, start_1based - 1)
    \o revcomp(Slice(s, start_1based - 1, end_1based))
    \o Slice(s, end_1based, Len(s))
(***************************************************************************)
(* _detect_inversion_block.  Column indices are 0-based as in the code;    *)
(* the result is <<start_col, end_col>>, or << >> for None.  StepFloor     *)
(* and KadaneMin stand for the literals 100 and 8000 of the function.      *)
(***************************************************************************)
SscWindow == 2     \* window=400 of the call, scaled to the model's sequences
SscMinSpan == 2    \* min_span=2000 of the call, scaled
StepFloor == 1     \* the 100 of step = max(100, window//4), scaled
KadaneMin == 8     \* the 8000 of max(min_span, 8000), scaled

\* comp[i], mis[i] for the 0-based column i
Comparable(consensus_aln, new_aln, i) ==
    /\ upper(consensus_aln[i + 1]) \in BaseSet
    /\ upper(new_aln[i + 1]) \in BaseSet
Mismatch(consensus_aln, new_aln, i) ==
    /\ Comparable(consensus_aln, new_aln, i)
    /\ upper(consensus_aln[i + 1]) # upper(new_aln[i + 1])

\* pref_comp[e] - pref_comp[s], pref_mis[e] - pref_mis[s]
CompIn(c, n, s, e) == Cardinality({i \in s..(e - 1) : Comparable(c, n, i)})
MisIn(c, n, s, e) == Cardinality({i \in s..(e - 1) : Mismatch(c, n, i)})

\* local_thr = max(0.35, min(thr, global_ratio + 0.25))
LocalThr(c, n, thr) ==
    LET L == Len(n)
        total_comp == CompIn(c, n, 0, L)
        global_ratio == IF total_comp > 0
                        THEN <<MisIn(c, n, 0, L), total_comp>> ELSE <<0, 1>>
    IN  RatMax(<<7, 20>>, RatMin(thr, RatAdd(global_ratio, <<1, 4>>)))

\* ratio > local_thr
WindowIsBadMut(c, n, s, window, thr) ==
    /\ ~(2 * CompIn(c, n, s, s + window) < window)
    /\ CompIn(c, n, s, s + window) > 0
    /\ ~RatLe(<<MisIn(c, n, s, s + window), CompIn(c, n, s, s + window)>>,
              LocalThr(c, n, thr))

\* ratio >= local_thr for the window [s, s + window)
WindowIsBad(c, n, s, window, thr) ==
    LET comp_w == CompIn(c, n, s, s + window) IN
    /\ ~(2 * comp_w < window)
    /\ comp_w > 0
    /\ RatLe(LocalThr(c, n, thr), <<MisIn(c, n, s, s + window), comp_w>>)

RECURSIVE BadWindows(_, _, _, _, _, _)
\* the list bad_windows, for s in range(s, L - window + 1, step)
BadWindows(c, n, s, window, step, thr) ==
    IF s > Len(n) - window THEN << >>
    ELSE (IF WindowIsBad(c, n, s, window, thr) THEN <<<<s, s + window - 1>>>> ELSE << >>)
         \o BadWindows(c, n, s + step, window, step, thr)

RECURSIVE MergeWindows(_, _, _, _)
\* the loop that joins windows within one step: the list merged
MergeWindows(rest, cur_s, cur_e, step) ==
    IF rest = << >> THEN <<<<cur_s, cur_e>>>>
    ELSE LET s == Head(rest)[1]
             e == Head(rest)[2]
         IN  IF s <= cur_e + step
             THEN MergeWindows(Tail(rest), cur_s, Max(cur_e, e), step)
             ELSE <<<<cur_s, cur_e>>>> \o MergeWindows(Tail(rest), s, e, step)

RECURSIVE BestBlockMut(_, _, _, _, _, _)
\* the width of the block in columns held against min_span
BestBlockMut(c, n, merged, min_span, best, best_comp) ==
    IF merged = << >> THEN best
    ELSE IF Head(merged)[2] - Head(merged)[1] + 1 >= min_span
            /\ CompIn(c, n, Head(merged)[1], Head(merged)[2] + 1) > best_comp
         THEN BestBlockMut(c, n, Tail(merged), min_span, Head(merged),
                           CompIn(c, n, Head(merged)[1], Head(merged)[2] + 1))
         ELSE BestBlockMut(c, n, Tail(merged), min_span, best, best_comp)

RECURSIVE BestBlock(_, _, _, _, _, _)
\* the loop over merged: the block with the most comparable positions
BestBlock(c, n, merged, min_span, best, best_comp) ==
    IF merged = << >> THEN best
    ELSE LET s == Head(merged)[1]
             e == Head(merged)[2]
             comp_blk == CompIn(c, n, s, e + 1)
         IN  IF comp_blk >= min_span /\ comp_blk > best_comp
             THEN BestBlock(c, n, Tail(merged), min_span, <<s, e>>, comp_blk)
             ELSE BestBlock(c, n, Tail(merged), min_span, best, best_comp)

\* a comparable match scored as a mismatch
ScoreMut(c, n, i) ==
    IF Comparable(c, n, i) THEN 1 ELSE 0

\* score[i]: +1 comparable mismatch, -1 comparable match, 0 otherwise
Score(c, n, i) ==
    IF Comparable(c, n, i) THEN (IF Mismatch(c, n, i) THEN 1 ELSE -1) ELSE 0

RECURSIVE Kadane(_, _, _, _, _, _, _, _)
\* the running-sum loop: <<max_sum, best_s, best_e>>
Kadane(c, n, i, cur_sum, max_sum, best_s, best_e, temp_s) ==
    IF i >= Len(n) THEN <<max_sum, best_s, best_e>>
    ELSE LET cur == cur_sum + Score(c, n, i) IN
         IF cur <= 0
         THEN Kadane(c, n, i + 1, 0, max_sum, best_s, best_e, i + 1)
         ELSE IF cur > max_sum
              THEN Kadane(c, n, i + 1, cur, cur, temp_s, i, temp_s)
              ELSE Kadane(c, n, i + 1, cur, max_sum, best_s, best_e, temp_s)

\* min_span alone as the least number of comparable positions
KadaneBlockMut(c, n, min_span) ==
    IF Kadane(c, n, 0, 0, 0, -1, -1, 0)[1] > 0
       /\ CompIn(c, n, Kadane(c, n, 0, 0, 0, -1, -1, 0)[2],
                 Kadane(c, n, 0, 0, 0, -1, -1, 0)[3] + 1) >= min_span
    THEN <<Kadane(c, n, 0, 0, 0, -1, -1, 0)[2], Kadane(c, n, 0, 0, 0, -1, -1, 0)[3]>>
    ELSE << >>

KadaneBlock(c, n, min_span) ==
    LET k == Kadane(c, n, 0, 0, 0, -1, -1, 0) IN
    IF k[1] > 0 /\ k[2] >= 0
       /\ CompIn(c, n, k[2], k[3] + 1) >= Max(min_span, KadaneMin)
    THEN <<k[2], k[3]>>
    ELSE << >>

_detect_inversion_block(consensus_aln, new_aln, window, thr, min_span) ==
    LET L == Len(new_aln) IN
    IF Len(consensus_aln) # L \/ L = 0 THEN << >>
    ELSE LET step == Max(StepFloor, window \div 4)
             bad_windows == BadWindows(consensus_aln, new_aln, 0, window, step, thr)
             best == IF bad_windows = << >> THEN << >>
                     ELSE BestBlock(consensus_aln, new_aln,
                                    MergeWindows(Tail(bad_windows), Head(bad_windows)[1],
                                                 Head(bad_windows)[2], step),
                                    min_span, << >>, -1)
         IN  IF best # << >> THEN best
             ELSE KadaneBlock(consensus_aln, new_aln, min_span)
(***************************************************************************)
(* _smith_waterman_endpoints.  The matrix H is built row by row; a result  *)
(* is [raised, value]: value << >> is None, raised is the TypeError of     *)
(* the traceback loop when bj holds a character of b.                      *)
(***************************************************************************)
RECURSIVE HRow(_, _, _, _, _, _, _, _)
\* the cells H[i][1..lb] of row i >= 1, given row i - 1 and the cells so far
HRow(a, b, i, up_row, cur, match, mismatch, gap) ==
    LET j == Len(cur) IN      \* cur holds H[i][0..j-1]
    IF j > Len(b) THEN cur
    ELSE LET s == IF a[i] = b[j] THEN match ELSE mismatch
             diag == up_row[j] + s
             up == up_row[j + 1] + gap
             left == cur[j] + gap
         IN  HRow(a, b, i, up_row,
                  Append(cur, Max(0, Max(diag, Max(up, left)))),
                  match, mismatch, gap)

RECURSIVE HRows(_, _, _, _, _, _)
\* the rows H[0..la]; H[i][j] is HRows(...)[i + 1][j + 1]
HRows(a, b, rows, match, mismatch, gap) ==
    LET i == Len(rows) IN
    IF i > Len(a) THEN rows
    ELSE HRows(a, b,
               Append(rows, HRow(a, b, i, rows[i], <<0>>, match, mismatch, gap)),
               match, mismatch, gap)

HMatrix(a, b, match, mismatch, gap) ==
    HRows(a, b, <<[j \in 1..(Len(b) + 1) |-> 0]>>, match, mismatch, gap)

\* T[i][j]: 0 stop, 1 diag, 2 up, 3 left
Move(H, a, b, i, j, match, mismatch, gap) ==
    LET val == H[i + 1][j + 1]
        s == IF a[i] = b[j] THEN match ELSE mismatch
    IN  IF val = 0 THEN 0
        ELSE IF val = H[i][j] + s THEN 1
        ELSE IF val = H[i][j + 1] + gap THEN 2
        ELSE 3

RECURSIVE TracebackMut(_, _, _, _, _, _, _, _)
\* a traceback that would stop one row and one column early
TracebackMut(H, a, b, i, j, match, mismatch, gap) ==
    IF ~(i > 1 /\ j > 1 /\ H[i + 1][j + 1] > 0) THEN <<i, j>>
    ELSE LET move == Move(H, a, b, i, j, match, mismatch, gap) IN
         IF move = 1 THEN TracebackMut(H, a, b, i - 1, j - 1, match, mismatch, gap)
         ELSE IF move = 2 THEN TracebackMut(H, a, b, i - 1, j, match, mismatch, gap)
         ELSE IF move = 3 THEN TracebackMut(H, a, b, i, j - 1, match, mismatch, gap)
         ELSE <<i, j>>

RECURSIVE Traceback(_, _, _, _, _, _, _, _)
\* the while loop: the <<i, j>> where it stops
Traceback(H, a, b, i, j, match, mismatch, gap) ==
    IF ~(i > 0 /\ j > 0 /\ H[i + 1][j + 1] > 0) THEN <<i, j>>
    ELSE LET move == Move(H, a, b, i, j, match, mismatch, gap) IN
         IF move = 1 THEN Traceback(H, a, b, i - 1, j - 1, match, mismatch, gap)
         ELSE IF move = 2 THEN Traceback(H, a, b, i - 1, j, match, mismatch, gap)
         ELSE IF move = 3 THEN Traceback(H, a, b, i, j - 1, match, mismatch, gap)
         ELSE <<i, j>>

\* the cells in the order of the two loops, and the first cell of maximal value
CellsBefore(lb, i, j, i2, j2) == i < i2 \/ (i = i2 /\ j < j2)
BestCell(H, la, lb) ==
    CHOOSE c \in (1..la) \X (1..lb) :
        \A d \in (1..la) \X (1..lb) :
            \/ H[c[1] + 1][c[2] + 1] > H[d[1] + 1][d[2] + 1]
            \/ /\ H[c[1] + 1][c[2] + 1] = H[d[1] + 1][d[2] + 1]
               /\ ~CellsBefore(lb, d[1], d[2], c[1], c[2])

_smith_waterman_endpoints(a, b, match, mismatch, gap) ==
    LET la == Len(a)
        lb == Len(b)
    IN  IF la = 0 \/ lb = 0 THEN [raised |-> FALSE, value |-> << >>]
        ELSE LET H == HMatrix(a, b, match, mismatch, gap)
                 c == BestCell(H, la, lb)
                 best == H[c[1] + 1][c[2] + 1]
             IN  IF best <= 0 THEN [raised |-> FALSE, value |-> << >>]
                 \* "bj = b[j - 1]" reuses bj inside the loops: bj is the
                 \* column of the best cell only if the last cell set it
                 ELSE IF c # <<la, lb>> THEN [raised |-> TRUE, value |-> << >>]
                 ELSE LET t == Traceback(H, a, b, la, lb, match, mismatch, gap)
                      IN  [raised |-> FALSE,
                           value |-> <<t[1] + 1, la, t[2] + 1, lb>>]

(***************************************************************************)
(* _micro_refine_with_sw.  SwMinWindow and SwMinSpan stand for the         *)
(* literals 20 and 200 of the function.                                    *)
(***************************************************************************)
SwFlank == 2       \* flank=250 of the call, scaled
Post == 1          \* post=60 (the call's and _refine_cutpoints_by_mem_anchors'), scaled
SwMinWindow == 2   \* the 20 of "len(left_cons) >= 20", scaled
SwMinSpan == 2     \* the 200 of the accepted span, scaled

\* one border: the local alignment of the two windows when both are long enough
BorderSw(cons_win, new_win) ==
    IF Len(cons_win) >= SwMinWindow /\ Len(new_win) >= SwMinWindow
    THEN _smith_waterman_endpoints(cons_win, new_win, 2, -1, -2)
    ELSE [raised |-> FALSE, value |-> << >>]

_micro_refine_with_sw(cons_ung, new_ung, q_st, q_en, c_st, c_en, flank, post) ==
    LET nQ == Len(new_ung)
        nC == Len(cons_ung)
    IN  IF ~(1 <= q_st /\ q_st < q_en /\ q_en <= nQ)
           \/ ~(1 <= c_st /\ c_st < c_en /\ c_en <= nC)
        THEN [raised |-> FALSE, value |-> << >>]
        ELSE LET cL0 == Max(1, c_st - flank)
                 qL0 == Max(1, q_st - flank)
                 cL1 == Min(nC, c_st - 1 + post)
                 qL1 == Min(nQ, q_st - 1 + post)
                 left == BorderSw(Slice(cons_ung, cL0 - 1, cL1),
                                  Slice(new_ung, qL0 - 1, qL1))
                 cR0 == Max(1, c_en + 1 - post)
                 qR0 == Max(1, q_en + 1 - post)
                 cR1 == Min(nC, c_en + flank)
                 qR1 == Min(nQ, q_en + flank)
                 right == BorderSw(Slice(cons_ung, cR0 - 1, cR1),
                                   Slice(new_ung, qR0 - 1, qR1))
             IN  IF left.raised THEN left
                 ELSE IF right.raised THEN right
                 ELSE LET new_q_st == IF left.value # << >>
                                      THEN (qL0 - 1) + left.value[4] + 1 ELSE q_st
                          new_q_en == IF right.value # << >>
                                      THEN (qR0 - 1) + right.value[3] - 1 ELSE q_en
                      IN  IF new_q_st < new_q_en
                             /\ (new_q_en - new_q_st + 1) >= SwMinSpan
                          THEN [raised |-> FALSE, value |-> <<new_q_st, new_q_en>>]
                          ELSE [raised |-> FALSE, value |-> << >>]
(***************************************************************************)
(* Cut points of a block of columns, and their refinement by anchors.      *)
(* s_col, e_col are 0-based column indices; positions are 1-based; 0       *)
(* stands for the None of next(..., None).                                 *)
(***************************************************************************)
\* next(col2pos[i] for i in range(s_col, e_col + 1) if col2pos[i] != -1)
FirstPos(col2pos, s_col, e_col) ==
    LET hit == {i \in s_col..e_col : col2pos[i + 1] # -1}
    IN  IF hit = {} THEN 0
        ELSE col2pos[(CHOOSE i \in hit : \A j \in hit : i <= j) + 1]

\* next(col2pos[i] for i in range(e_col, s_col - 1, -1) if col2pos[i] != -1)
LastPos(col2pos, s_col, e_col) ==
    LET hit == {i \in s_col..e_col : col2pos[i + 1] # -1}
    IN  IF hit = {} THEN 0
        ELSE col2pos[(CHOOSE i \in hit : \A j \in hit : i >= j) + 1]

\* <<q_st, q_en, c_st, c_en>>, or << >> where the functions return None
BlockPositions(consensus_aln, new_aln, s_col, e_col) ==
    LET col2q == _map_alncol_to_pos(new_aln)
        col2c == _map_alncol_to_pos(consensus_aln)
        q_st == FirstPos(col2q, s_col, e_col)
        q_en == LastPos(col2q, s_col, e_col)
        c_st == FirstPos(col2c, s_col, e_col)
        c_en == LastPos(col2c, s_col, e_col)
    IN  IF 0 \in {q_st, q_en, c_st, c_en} \/ ~(q_st < q_en /\ c_st < c_en)
        THEN << >>
        ELSE <<q_st, q_en, c_st, c_en>>

MinCutSpan == 2    \* the 500 of "max(500, k * 5)", scaled

\* the two validations that end both refinements
CheckedCut(new_q_st, new_q_en, nQ, k) ==
    IF ~(1 <= new_q_st /\ new_q_st < new_q_en /\ new_q_en <= nQ) THEN << >>
    ELSE IF (new_q_en - new_q_st + 1) < Max(MinCutSpan, k * 5) THEN << >>
    ELSE <<new_q_st, new_q_en>>

\* "N" in kmer
HasN(kmer) == \E x \in DOMAIN kmer : kmer[x] = "N"

\* s.find(kmer) != -1
Contains(s, kmer) ==
    \E i \in 0..(Len(s) - Len(kmer)) : Slice(s, i, i + Len(kmer)) = kmer

_refine_cutpoints_by_anchors(consensus_aln, new_aln, s_col, e_col, flank_nt, k) ==
    IF Len(consensus_aln) # Len(new_aln) \/ Len(new_aln) = 0 THEN << >>
    ELSE LET p == BlockPositions(consensus_aln, new_aln, s_col, e_col) IN
    IF p = << >> THEN << >>
    ELSE LET q_st == p[1]
             q_en == p[2]
             c_st == p[3]
             c_en == p[4]
             cons_ung == _ungap(consensus_aln)
             new_ung == _ungap(new_aln)
             nQ == Len(new_ung)
             nC == Len(cons_ung)
             q_left_start == Max(1, q_st - flank_nt)
             c_left_start == Max(1, c_st - flank_nt)
             left_new == Slice(new_ung, q_left_start - 1, q_st - 1)
             left_cons == Slice(cons_ung, c_left_start - 1, c_st - 1)
             q_right_start == q_en + 1
             c_right_start == c_en + 1
             right_new == Slice(new_ung, q_right_start - 1, Min(nQ, q_en + flank_nt))
             right_cons == Slice(cons_ung, c_right_start - 1, Min(nC, c_en + flank_nt))
             left_hits ==
                 IF Len(left_new) >= k /\ Len(left_cons) >= k
                 THEN {i \in 0..(Len(left_new) - k) :
                          /\ ~HasN(Slice(left_new, i, i + k))
                          /\ Contains(left_cons, Slice(left_new, i, i + k))}
                 ELSE {}
             right_hits ==
                 IF Len(right_new) >= k /\ Len(right_cons) >= k
                 THEN {i \in 0..(Len(right_new) - k) :
                          /\ ~HasN(Slice(right_new, i, i + k))
                          /\ Contains(right_cons, Slice(right_new, i, i + k))}
                 ELSE {}
             new_q_st ==
                 IF left_hits = {} THEN q_st
                 ELSE (q_left_start - 1)
                      + (CHOOSE i \in left_hits : \A j \in left_hits : i >= j)
                      + k + 1
             new_q_en ==
                 IF right_hits = {} THEN q_en
                 ELSE (q_right_start - 1)
                      + (CHOOSE i \in right_hits : \A j \in right_hits : i <= j)
                      + 1 - 1
         IN  CheckedCut(new_q_st, new_q_en, nQ, k)
(***************************************************************************)
(* _refine_cutpoints_by_mem_anchors                                        *)
(***************************************************************************)
\* the keys _build_index(s, k) holds at position i (0-based): a k-mer of
\* ACGTacgt only
Indexed(s, i, k) ==
    /\ i + k <= Len(s)
    /\ \A x \in 1..k : s[i + x] \in {"A", "C", "G", "T", "a", "c", "g", "t"}

RECURSIVE ExtendLeft(_, _, _, _, _)
\* _extend_mem, the loop to the left: L
ExtendLeft(a, ia, b, ib, L) ==
    IF ia - 1 - L >= 0 /\ ib - 1 - L >= 0
       /\ upper(a[ia - L]) = upper(b[ib - L])
       /\ upper(a[ia - L]) \in BaseSet
    THEN ExtendLeft(a, ia, b, ib, L + 1)
    ELSE L

RECURSIVE ExtendRight(_, _, _, _, _, _)
\* _extend_mem, the loop to the right: R
ExtendRight(a, ia, b, ib, k, R) ==
    IF ia + k + R < Len(a) /\ ib + k + R < Len(b)
       /\ upper(a[ia + k + R + 1]) = upper(b[ib + k + R + 1])
       /\ upper(a[ia + k + R + 1]) \in BaseSet
    THEN ExtendRight(a, ia, b, ib, k, R + 1)
    ELSE R

\* <<start_a, start_b, total>>
_extend_mem(a, ia, b, ib, k) ==
    LET L == ExtendLeft(a, ia, b, ib, 0)
        R == ExtendRight(a, ia, b, ib, k, 0)
    IN  <<ia - L, ib - L, k + L + R>>

\* the seeds of size k: <<i, j>> with the k-mer of the query flank at i in
\* start_i..end_i found in the index of the consensus flank at j
Seeds(cons_flank, new_flank, k, start_i, end_i) ==
    {<<i, j>> \in (start_i..end_i) \X (0..(Len(cons_flank) - k)) :
        /\ ~HasN(str_upper(Slice(new_flank, i, i + k)))
        /\ Indexed(cons_flank, j, k)
        /\ str_upper(Slice(new_flank, i, i + k))
               = str_upper(Slice(cons_flank, j, j + k))}

\* the <<tot, sb>> of every seed after extension
Mems(cons_flank, new_flank, k, start_i, end_i) ==
    {LET m == _extend_mem(cons_flank, ij[2], new_flank, ij[1], k)
     IN  <<m[3], m[2]>> : ij \in Seeds(cons_flank, new_flank, k, start_i, end_i)}

RECURSIVE LeftAnchor(_, _, _, _, _)
\* q_end_local of the anchor of the first seed size, from k down in steps of
\* 2, that has a seed: the longest, then the one ending nearest the border;
\* -1 when no size has a seed
LeftAnchor(left_cons, left_new, k, k_min, search_span) ==
    IF k < k_min THEN -1
    ELSE LET ms == Mems(left_cons, left_new, k,
                        Max(0, Len(left_new) - search_span - k),
                        Max(0, Len(left_new) - k))
         IN  IF ms = {}
             THEN LeftAnchor(left_cons, left_new, k - 2, k_min, search_span)
             ELSE LET m == CHOOSE x \in ms : \A y \in ms :
                               \/ x[1] > y[1]
                               \/ (x[1] = y[1] /\ x[2] + x[1] >= y[2] + y[1])
                  IN  m[2] + m[1] - 1

RECURSIVE RightAnchor(_, _, _, _, _)
\* q_start_local of the right anchor: the longest, then the one starting
\* nearest the border; -1 when no size has a seed
RightAnchor(right_cons, right_new, k, k_min, search_span) ==
    IF k < k_min THEN -1
    ELSE LET ms == Mems(right_cons, right_new, k, 0,
                        Min(Len(right_new) - k, search_span))
         IN  IF ms = {}
             THEN RightAnchor(right_cons, right_new, k - 2, k_min, search_span)
             ELSE LET m == CHOOSE x \in ms : \A y \in ms :
                               \/ x[1] > y[1]
                               \/ (x[1] = y[1] /\ x[2] <= y[2])
                  IN  m[2]

_refine_cutpoints_by_mem_anchors(consensus_aln, new_aln, s_col, e_col, flank_nt, k_init, k_min, search_span) ==
    IF Len(consensus_aln) # Len(new_aln) \/ Len(new_aln) = 0 THEN << >>
    ELSE LET p == BlockPositions(consensus_aln, new_aln, s_col, e_col) IN
    IF p = << >> THEN << >>
    ELSE LET q_st == p[1]
             q_en == p[2]
             c_st == p[3]
             c_en == p[4]
             cons_ung == _ungap(consensus_aln)
             new_ung == _ungap(new_aln)
             nQ == Len(new_ung)
             nC == Len(cons_ung)
             cL0 == Max(1, c_st - flank_nt)
             qL0 == Max(1, q_st - flank_nt)
             left_cons == Slice(cons_ung, cL0 - 1, Min(nC, c_st - 1 + Post))
             left_new == Slice(new_ung, qL0 - 1, Min(nQ, q_st - 1 + Post))
             cR0 == Max(1, c_en + 1 - Post)
             qR0 == Max(1, q_en + 1 - Post)
             right_cons == Slice(cons_ung, cR0 - 1, Min(nC, c_en + flank_nt))
             right_new == Slice(new_ung, qR0 - 1, Min(nQ, q_en + flank_nt))
             q_end_local ==
                 IF Len(left_cons) >= k_min /\ Len(left_new) >= k_min
                 THEN LeftAnchor(left_cons, left_new, k_init, k_min, search_span)
                 ELSE -1
             q_start_local ==
                 IF Len(right_cons) >= k_min /\ Len(right_new) >= k_min
                 THEN RightAnchor(right_cons, right_new, k_init, k_min, search_span)
                 ELSE -1
             \* left_anchor_q_end = (qL0 - 1) + q_end_local, 0-based local end
             new_q_st == IF q_end_local # -1
                         THEN ((qL0 - 1) + q_end_local) + 1 ELSE q_st
             new_q_en == IF q_start_local # -1
                         THEN ((qR0 - 1) + q_start_local) - 1 ELSE q_en
         IN  CheckedCut(new_q_st, new_q_en, nQ, k_min)
(***************************************************************************)
(* parse_pileup_line of BAMtsv.py.  A line is the tuple of its             *)
(* tab-separated fields, as for the tally table; the base-call field is a  *)
(* tuple of characters read by the 0-based index i of the loop.            *)
(***************************************************************************)
PileupKeys == {".", ",", "A", "C", "G", "T", "N", "+", "-", "^", "$", "other"}

\* the dict iupac: the component bases of an ambiguity code
iupac ==
    [R |-> {"A", "G"}, Y |-> {"C", "T"}, S |-> {"G", "C"}, W |-> {"A", "T"},
     K |-> {"G", "T"}, M |-> {"A", "C"}, B |-> {"C", "G", "T"},
     D |-> {"A", "G", "T"}, H |-> {"A", "C", "T"}, V |-> {"A", "C", "G"}]

RECURSIVE DigitRun(_, _)
\* re.match(r'(\d+)', bases[i:]): the digits at index i, << >> for no match
DigitRun(bases, i) ==
    IF i < Len(bases) /\ IsDigit(bases[i + 1])
    THEN <<bases[i + 1]>> \o DigitRun(bases, i + 1)
    ELSE << >>

\* counts[key] += 1
Bump(counts, key) == [counts EXCEPT ![key] = @ + 1]

\* for b in iupac[cu]: counts[b] += 1
BumpEach(counts, keys) == [k \in DOMAIN counts |-> IF k \in keys THEN counts[k] + 1 ELSE counts[k]]

\* the branch "if c in '+-'": stop is the break of a length-less indel
IndelStep(bases, i, counts, c) ==
    LET digits == DigitRun(bases, i + 1) IN
    IF digits = << >>
    THEN [counts |-> Bump(Bump(counts, c), "other"), i |-> i + 1, stop |-> TRUE]
    ELSE [counts |-> Bump(counts, c),
          i |-> i + 1 + Len(digits) + DigitsValue(digits, 0), stop |-> FALSE]

\* one iteration of "while i < len(bases)"
PileupStep(bases, i, counts) ==
    LET c == bases[i + 1]
        cu == upper(c)
    IN  IF c = "^" THEN [counts |-> Bump(counts, "^"), i |-> i + 2, stop |-> FALSE]
        ELSE IF c \in {"$", ".", ","}
        THEN [counts |-> Bump(counts, c), i |-> i + 1, stop |-> FALSE]
        ELSE IF c \in {"+", "-"} THEN IndelStep(bases, i, counts, c)
        ELSE IF cu \in {"A", "C", "G", "T", "N"}
        THEN [counts |-> Bump(counts, cu), i |-> i + 1, stop |-> FALSE]
        ELSE IF c = "*" THEN [counts |-> counts, i |-> i + 1, stop |-> FALSE]
        ELSE IF cu \in DOMAIN iupac
        THEN [counts |-> BumpEach(counts, iupac[cu]), i |-> i + 1, stop |-> FALSE]
        ELSE [counts |-> Bump(counts, "other"), i |-> i + 1, stop |-> FALSE]

RECURSIVE ParseBases(_, _, _)
\* the while loop: the dict counts when it ends
ParseBases(bases, i, counts) ==
    IF i >= Len(bases) THEN counts
    ELSE LET s == PileupStep(bases, i, counts) IN
         IF s.stop THEN s.counts ELSE ParseBases(bases, s.i, s.counts)

\* [raised |-> TRUE] is the ValueError of the unpacking or of int(pos)
parse_pileup_line(line) ==
    IF Len(line) # 6 \/ ~ParseInt(line[2])[1]
    THEN [raised |-> TRUE, chrom |-> << >>, pos |-> 0, refb |-> << >>,
          counts |-> [k \in PileupKeys |-> 0]]
    ELSE [raised |-> FALSE, chrom |-> line[1], pos |-> ParseInt(line[2])[2],
          refb |-> line[3],
          counts |-> ParseBases(line[5], 0, [k \in PileupKeys |-> 0])]
(***************************************************************************)
(* Files.  A file's text is the tuple of its lines; the file of zero bytes *)
(* is << >>.  A function that can raise returns a record with `raised`.   *)
(***************************************************************************)
RECURSIVE OnelinePy(_, _, _)
\* the loop of fasta_to_oneline_py: what is written after `lines`, with
\* header None kept as <<None>>
OnelinePy(lines, header, seq_parts) ==
    IF lines = << >>
    THEN IF header # <<None>> THEN <<Join(seq_parts)>> ELSE << >>
    ELSE LET line == Head(lines) IN
         IF IsHeader(line)
         THEN (IF header # <<None>> THEN <<Join(seq_parts)>> ELSE << >>)
              \o <<line>> \o OnelinePy(Tail(lines), line, << >>)
         ELSE OnelinePy(Tail(lines), header, Append(seq_parts, strip(line)))

fasta_to_oneline_py(src) == OnelinePy(src, <<None>>, << >>)

RECURSIVE OnelineAwk(_, _)
\* /^>/ {if (seq) print seq; print; seq=""; next} {seq=seq $0} END {print seq}
OnelineAwk(lines, seq) ==
    IF lines = << >> THEN <<seq>>
    ELSE LET line == Head(lines) IN
         IF IsHeader(line)
         THEN (IF seq # << >> THEN <<seq>> ELSE << >>)
              \o <<line>> \o OnelineAwk(Tail(lines), << >>)
         ELSE OnelineAwk(Tail(lines), seq \o line)

fasta_to_oneline_awk(src) == OnelineAwk(src, << >>)

\* a copy that would drop the gap characters of the sequence lines
Gapless(text) ==
    [i \in 1..Len(text) |-> IF IsHeader(text[i]) THEN text[i] ELSE _ungap(text[i])]
write_oneline_copyMut(src, awk) ==
    Gapless(IF awk THEN fasta_to_oneline_awk(src) ELSE fasta_to_oneline_py(src))

\* write_oneline_copy: get_oneliner() is the awk version where awk runs
write_oneline_copy(src, awk) ==
    IF awk THEN fasta_to_oneline_awk(src) ELSE fasta_to_oneline_py(src)

\* the lines after the first header line (all lines consumed when there is none)
RECURSIVE AfterFirstHeader(_)
AfterFirstHeader(lines) ==
    IF lines = << >> THEN << >>
    ELSE IF IsHeader(Head(lines)) THEN Tail(lines)
    ELSE AfterFirstHeader(Tail(lines))

\* the first header line, <<None>> when there is none
RECURSIVE FirstHeader(_)
FirstHeader(lines) ==
    IF lines = << >> THEN <<None>>
    ELSE IF IsHeader(Head(lines)) THEN Head(lines)
    ELSE FirstHeader(Tail(lines))

\* "for line in fi: if line.startswith('>'): break; seq_parts.append(line.strip())"
RECURSIVE UntilHeader(_)
UntilHeader(lines) ==
    IF lines = << >> \/ IsHeader(Head(lines)) THEN << >>
    ELSE <<strip(Head(lines))>> \o UntilHeader(Tail(lines))

\* the sequence of the first contig as both functions read it
FirstContig(lines) == Join(UntilHeader(AfterFirstHeader(lines)))

\* a corrector that would take the keys of the dict as 0-based indexes
apply_mutations_single_contigMut(fasta_in, mutmap) ==
    [i \in 1..2 |->
        IF i = 1 THEN FirstHeader(fasta_in)
        ELSE [k \in DOMAIN FirstContig(fasta_in) |->
                 IF (k - 1) \in DOMAIN mutmap THEN mutmap[k - 1]
                 ELSE FirstContig(fasta_in)[k]]]

\* the text apply_mutations_single_contig writes to fasta_out; mutmap is the
\* dict of load_mutations
apply_mutations_single_contig(fasta_in, mutmap) ==
    LET header == FirstHeader(fasta_in)
        seq == FirstContig(fasta_in)
        mutated == [i \in DOMAIN seq |->
                       IF i \in DOMAIN mutmap THEN mutmap[i] ELSE seq[i]]
    IN  (IF header # <<None>> THEN <<header>> ELSE << >>) \o <<mutated>>

\* the text rename_header_inplace leaves in fasta_path:
\* f">{name_hint}, {species}, {len(seq)}"
rename_header_inplace(fasta, name_hint, species) ==
    LET seq == FirstContig(fasta)
    IN  << <<">">> \o name_hint \o <<",", " ">> \o species \o <<",", " ">>
              \o ToDigits(Len(seq)),
           seq >>

RECURSIVE load_mutations(_, _)
\* load_mutations over the lines of a table, from the dict m
load_mutations(lines, m) ==
    IF lines = << >> THEN m
    ELSE load_mutations(Tail(lines), load_mutations_line(m, Head(lines)))
(***************************************************************************)
(* rotate_to_reference_anchor                                              *)
(***************************************************************************)
RECURSIVE RecordParts(_)
\* read_first_record after the first header: the stripped lines up to the
\* next header
RecordParts(lines) ==
    IF lines = << >> \/ IsHeader(Head(lines)) THEN << >>
    ELSE <<strip(Head(lines))>> \o RecordParts(Tail(lines))

\* raised is "ValueError: FASTA sin cabecera"
read_first_record(lines) ==
    IF FirstHeader(lines) = <<None>>
    THEN [raised |-> TRUE, hdr |-> <<None>>, seq |-> << >>]
    ELSE [raised |-> FALSE, hdr |-> FirstHeader(lines),
          seq |-> Join(RecordParts(AfterFirstHeader(lines)))]

\* the mismatches of zip(pattern, text), 'N' a wildcard on either side
Mismatches(pattern, text) ==
    Cardinality({i \in 1..Min(Len(pattern), Len(text)) :
        pattern[i] # "N" /\ text[i] # "N" /\ pattern[i] # text[i]})

\* match_with_mismatches: the first index, or -1
match_with_mismatches(text, pattern, max_mm) ==
    LET m == Len(pattern)
        n == Len(text)
        hits == {i \in 0..(n - m) : Mismatches(pattern, Slice(text, i, i + m)) <= max_mm}
    IN  IF m > n \/ hits = {} THEN -1
        ELSE CHOOSE i \in hits : \A j \in hits : i <= j

\* s[-k:] of Python
LastK(s, k) == IF k = 0 \/ k >= Len(s) THEN s ELSE SubSeq(s, Len(s) - k + 1, Len(s))

\* A) the head of qseq against first; best is << >> (None) or
\* <<orient, cut, mm_used>>
StepA(best, orient, mm_head, max_mismatches) ==
    IF mm_head <= max_mismatches /\ (best = << >> \/ mm_head < best[3])
    THEN <<orient, 0, mm_head>> ELSE best

\* B) the circular pattern last + first, found at pos
StepB(best, orient, pos, k_first, n, max_mismatches) ==
    IF pos # -1 /\ (best = << >> \/ max_mismatches < best[3])
    THEN <<orient, (pos + k_first) % n, max_mismatches>> ELSE best

\* C) first alone, found at pos2
StepC(best, orient, pos2, n, max_mismatches) ==
    IF pos2 # -1 /\ pos2 < n /\ (best = << >> \/ max_mismatches < best[3])
    THEN <<orient, pos2 % n, max_mismatches>> ELSE best

\* one pass of "for orient, qseq in candidates": best afterwards, and whether
\* the loop breaks
RotateStep(best, orient, qseq, first, circ, k_first, max_mismatches) ==
    LET mm_head == Mismatches(first, Slice(qseq, 0, k_first)) IN
    IF mm_head <= max_mismatches /\ mm_head = 0
    THEN [best |-> StepA(best, orient, mm_head, max_mismatches), stop |-> TRUE]
    ELSE [best |->
             StepC(StepB(StepA(best, orient, mm_head, max_mismatches), orient,
                         match_with_mismatches(qseq \o qseq, circ, max_mismatches),
                         k_first, Len(qseq), max_mismatches),
                   orient,
                   match_with_mismatches(qseq \o qseq, first, max_mismatches),
                   Len(qseq), max_mismatches),
          stop |-> FALSE]

\* the second pass, unless the first one broke the loop
RotateRev(fwd, qseq_orig, first, circ, k_first, max_mismatches) ==
    IF fwd.stop THEN fwd.best
    ELSE RotateStep(fwd.best, "rev", revcomp(qseq_orig), first, circ, k_first,
                    max_mismatches).best

\* a rotation that would lose the nucleotide at the cut
RotateAtMut(qseq, cut) == Slice(qseq, cut + 1, Len(qseq)) \o Slice(qseq, 0, cut)

\* "rotated = qseq[cut:] + qseq[:cut]"
RotateAt(qseq, cut) == Slice(qseq, cut, Len(qseq)) \o Slice(qseq, 0, cut)

\* lines 722-735
RotateWrite(best, qseq_orig, qh, query_fasta) ==
    IF best = << >> \/ (best[2] = 0 /\ best[1] = "fwd")
    THEN [raised |-> FALSE, rotated |-> FALSE, text |-> query_fasta]
    ELSE [raised |-> FALSE, rotated |-> TRUE,
          text |-> <<qh,
                     RotateAt(IF best[1] = "fwd" THEN qseq_orig
                              ELSE revcomp(qseq_orig), best[2])>>]

\* lines 687-720 on the upper-cased sequences
RotateSeqs(ref, qseq_orig, qh, query_fasta, k_first, max_mismatches) ==
    RotateWrite(
        RotateRev(RotateStep(<< >>, "fwd", qseq_orig, Slice(ref, 0, k_first),
                             LastK(ref, k_first) \o Slice(ref, 0, k_first),
                             k_first, max_mismatches),
                  qseq_orig, Slice(ref, 0, k_first),
                  LastK(ref, k_first) \o Slice(ref, 0, k_first),
                  k_first, max_mismatches),
        qseq_orig, qh, query_fasta)

RotateRecords(r, q, query_fasta, k_first, max_mismatches) ==
    IF r.raised \/ q.raised
    THEN [raised |-> TRUE, rotated |-> FALSE, text |-> << >>]
    ELSE IF Len(r.seq) < k_first \/ Len(q.seq) = 0
    THEN [raised |-> FALSE, rotated |-> FALSE, text |-> query_fasta]
    ELSE RotateSeqs(str_upper(r.seq), str_upper(q.seq), q.hdr, query_fasta,
                    k_first, max_mismatches)

\* [raised, rotated, text]: rotated is FALSE where query_fasta itself is
\* returned; text is the file the returned path names
rotate_to_reference_anchor(ref_fasta, query_fasta, k_first, max_mismatches) ==
    RotateRecords(read_first_record(ref_fasta), read_first_record(query_fasta),
                  query_fasta, k_first, max_mismatches)

(***************************************************************************)
(* _flip_segment_in_oneline                                                *)
(***************************************************************************)
RECURSIVE NonHeaderLines(_)
NonHeaderLines(lines) ==
    IF lines = << >> THEN << >>
    ELSE (IF IsHeader(Head(lines)) THEN << >> ELSE <<strip(Head(lines))>>)
         \o NonHeaderLines(Tail(lines))

\* raised is the TypeError of "header + '\n'" with header None
_flip_segment_in_oneline(oneline_fa, start_1based, end_1based) ==
    IF FirstHeader(oneline_fa) = <<None>>
    THEN [raised |-> TRUE, text |-> << >>]
    ELSE [raised |-> FALSE,
          text |-> <<FirstHeader(oneline_fa),
                     FlipSegment(Join(NonHeaderLines(oneline_fa)),
                                 start_1based, end_1based)>>]
(***************************************************************************)
(* The external aligner (run_mafft_input, with its retry on PATH).  What   *)
(* the process does is not in this repository: a run either cannot be      *)
(* launched (subprocess.run raises), exits non-zero, or exits 0 and prints *)
(* the records of its input in order, gaps of the input removed, in the    *)
(* input's case or in lower case, padded with '-' to one length, or, for   *)
(* a malformed output, not padded.                                         *)
(***************************************************************************)
lower(ch) ==
    CASE ch = "A" -> "a" [] ch = "C" -> "c" [] ch = "G" -> "g"
      [] ch = "T" -> "t" [] ch = "N" -> "n" [] OTHER -> ch

Pad(s, L) == s \o [i \in 1..(L - Len(s)) |-> "-"]

AlignedRows(input, lower_case, padded) ==
    LET recs == _parse_fasta_string(input)
        seqs == [k \in DOMAIN recs |->
                    LET u == _ungap(recs[k][2])
                    IN  IF lower_case THEN [i \in DOMAIN u |-> lower(u[i])] ELSE u]
        L == IF DOMAIN seqs = {} THEN 0
             ELSE LET k == CHOOSE a \in DOMAIN seqs :
                               \A b \in DOMAIN seqs : Len(seqs[a]) >= Len(seqs[b])
                  IN  Len(seqs[k])
    IN  [k \in DOMAIN recs |->
            <<recs[k][1], IF padded THEN Pad(seqs[k], L) ELSE seqs[k]>>]

\* the outcomes of one run on the text `input`: rc is "raised" (launch
\* error), 1 or 0; out is stdout
AlignerRuns(input) ==
    {[rc |-> "raised", out |-> << >>], [rc |-> "1", out |-> << >>]}
    \cup {[rc |-> "0", out |-> FastaText(AlignedRows(input, lc, pd), WrapWidth)] :
             lc \in BOOLEAN, pd \in BOOLEAN}

\* ref_fasta.read_text() + "\n" + query.read_text() + "\n"
MafftInput(ref_text, query_text) ==
    ref_text \o << << >> >> \o query_text \o << << >> >>
(***************************************************************************)
(* align_with_reference_and_number, the SSC fix between the two aligner    *)
(* runs (lines 308-376), as a function of the first alignment `out` and    *)
(* the query file that was aligned.  The parameters of the calls are       *)
(* scaled to the sequences of the model.                                   *)
(***************************************************************************)
MemFlank == 2       \* flank_nt=1500, scaled
MemKInit == 3       \* k_init=27, scaled
MemKMin == 1        \* k_min=17, scaled
MemSearchSpan == 2  \* search_span=400, scaled
AnchorFlank == 2    \* flank_nt=1000, scaled
AnchorK == 1        \* k=25, scaled
JaccardK == 2       \* k=21, scaled
RotK == 2           \* k_first=200, scaled
RotMaxMM == 0       \* max_mismatches=10, scaled

\* prev_aln, new_aln of a parsed alignment of at least two records
PrevAln(entries) == [k \in 1..(Len(entries) - 1) |-> entries[k][2]]
NewAln(entries) == entries[Len(entries)][2]

\* "if cons_aln and len(cons_aln) == len(new_aln)", cons the result record
\* of _consensus_from_entries
ShapeOkMut(cons, new_aln) == ~cons.raised /\ cons.value # << >>
ShapeOk(cons, new_aln) ==
    ~cons.raised /\ cons.value # << >> /\ Len(cons.value) = Len(new_aln)

NoSsc ==
    [raised |-> FALSE, consensus_failed |-> FALSE, detect_called |-> FALSE,
     block |-> << >>, cuts |-> << >>, stage |-> "none", sw_called |-> FALSE,
     jacc_before |-> <<0, 1>>, flip_called |-> FALSE, flipped |-> FALSE,
     flip_text |-> << >>]

\* lines 328-333: <<q_st_base, q_en_base, c_st, c_en>>, 0 for None
BaseCuts(cons_aln, new_aln, s_col, e_col) ==
    <<FirstPos(_map_alncol_to_pos(new_aln), s_col, e_col),
      LastPos(_map_alncol_to_pos(new_aln), s_col, e_col),
      FirstPos(_map_alncol_to_pos(cons_aln), s_col, e_col),
      LastPos(_map_alncol_to_pos(cons_aln), s_col, e_col)>>

\* lines 336-352: the cuts of the MEM anchors, else of the simple anchors,
\* else the base cuts
AnchoredCuts(base, refined, refined_simple) ==
    IF refined # << >>
    THEN [q_st |-> refined[1], q_en |-> refined[2], stage |-> "mem"]
    ELSE IF refined_simple # << >>
    THEN [q_st |-> refined_simple[1], q_en |-> refined_simple[2], stage |-> "simple"]
    ELSE [q_st |-> base[1], q_en |-> base[2], stage |-> "base"]

\* lines 359-363: what the call of _micro_refine_with_sw leaves
MicroCuts(a, micro) ==
    IF micro.raised
    THEN [raised |-> TRUE, q_st |-> a.q_st, q_en |-> a.q_en,
          stage |-> a.stage, sw_called |-> TRUE]
    ELSE IF micro.value # << >>
    THEN [raised |-> FALSE, q_st |-> micro.value[1], q_en |-> micro.value[2],
          stage |-> "sw", sw_called |-> TRUE]
    ELSE [raised |-> FALSE, q_st |-> a.q_st, q_en |-> a.q_en,
          stage |-> a.stage, sw_called |-> TRUE]

\* lines 355-365: micro-SW only where the cuts are valid
CutsAfterSw(cons_aln, new_aln, c_st, c_en, a) ==
    IF 0 \notin {a.q_st, a.q_en, c_st, c_en} /\ a.q_st < a.q_en /\ c_st < c_en
    THEN MicroCuts(a, _micro_refine_with_sw(_ungap(cons_aln), _ungap(new_aln),
                          a.q_st, a.q_en, c_st, c_en, SwFlank, Post))
    ELSE [raised |-> FALSE, q_st |-> a.q_st, q_en |-> a.q_en,
          stage |-> a.stage, sw_called |-> FALSE]

\* the cut points after the refinements of lines 328-365: [raised, q_st,
\* q_en, stage, sw_called]; 0 is None
CutsFrom(cons_aln, new_aln, s_col, e_col, base) ==
    CutsAfterSw(cons_aln, new_aln, base[3], base[4],
        AnchoredCuts(base,
            _refine_cutpoints_by_mem_anchors(cons_aln, new_aln, s_col, e_col,
                MemFlank, MemKInit, MemKMin, MemSearchSpan),
            _refine_cutpoints_by_anchors(cons_aln, new_aln, s_col, e_col,
                AnchorFlank, AnchorK)))

RefinedCuts(cons_aln, new_aln, s_col, e_col) ==
    CutsFrom(cons_aln, new_aln, s_col, e_col,
             BaseCuts(cons_aln, new_aln, s_col, e_col))

\* lines 367-376: the flip of the segment between the cuts c
FlipTest(seen, cons_aln, new_aln, rotated_query, c, f) ==
    [seen EXCEPT !.jacc_before = _kmer_jaccard(_ungap(cons_aln), _ungap(new_aln),
                                               JaccardK),
                 !.flip_called = TRUE,
                 !.flipped = ~f.raised,
                 !.flip_text = f.text]

\* lines 325-376 for the block found and its cuts c
SscCuts(seen, cons_aln, new_aln, rotated_query, c) ==
    IF c.raised THEN [seen EXCEPT !.raised = TRUE]
    ELSE IF c.q_st # 0 /\ c.q_en # 0 /\ c.q_st < c.q_en
    THEN FlipTest(seen, cons_aln, new_aln, rotated_query, c,
                  _flip_segment_in_oneline(rotated_query, c.q_st, c.q_en))
    ELSE seen

SscSeen(block, c) ==
    [NoSsc EXCEPT !.detect_called = TRUE, !.block = block,
                  !.cuts = <<c.q_st, c.q_en>>, !.stage = c.stage,
                  !.sw_called = c.sw_called]

SscRefine(cons_aln, new_aln, rotated_query, block, c) ==
    SscCuts(SscSeen(block, c), cons_aln, new_aln, rotated_query, c)

\* lines 322-324
SscBlock(cons_aln, new_aln, rotated_query, block) ==
    IF block = << >> THEN [NoSsc EXCEPT !.detect_called = TRUE]
    ELSE SscRefine(cons_aln, new_aln, rotated_query, block,
                   RefinedCuts(cons_aln, new_aln, block[1], block[2]))

\* lines 316-322
SscConsensus(new_aln, cons, rotated_query) ==
    IF ~ShapeOk(cons, new_aln)
    THEN [NoSsc EXCEPT !.consensus_failed = cons.raised]
    ELSE SscBlock(cons.value, new_aln, rotated_query,
                  _detect_inversion_block(cons.value, new_aln,
                                          SscWindow, <<3, 5>>, SscMinSpan))

\* lines 312-315
SscEntries(entries, rotated_query) ==
    IF Len(entries) < 2 THEN NoSsc
    ELSE SscConsensus(NewAln(entries),
                      _consensus_from_entries(PrevAln(entries)), rotated_query)

SscFix(out, rotated_query, enable_ssc_fix) ==
    IF ~enable_ssc_fix THEN NoSsc
    ELSE SscEntries(_parse_fasta_string(out), rotated_query)

\* lines 394-408: the alignment kept after the second run; jacc_after is
\* << >> where it is not computed
JaccOf(new2, cons2) ==
    IF ShapeOk(cons2, new2)
    THEN _kmer_jaccard(_ungap(cons2.value), _ungap(new2), JaccardK)
    ELSE << >>

JaccEntries(entries2) ==
    IF Len(entries2) < 2 THEN << >>
    ELSE JaccOf(NewAln(entries2), _consensus_from_entries(PrevAln(entries2)))

JaccAfter(out2) == JaccEntries(_parse_fasta_string(out2))

\* "out_best = out2 if jacc_after >= jacc_before else out"
KeepFlipMut(jacc_after, jacc_before) == RatLe(jacc_after, jacc_before)
KeepFlip(jacc_after, jacc_before) == RatLe(jacc_before, jacc_after)

Better(out, out2, jacc_after, jacc_before) ==
    IF jacc_after = << >> THEN out
    ELSE IF KeepFlip(jacc_after, jacc_before) THEN out2 ELSE out

OutBest(out, rc2, out2, jacc_before) ==
    IF rc2 # "0" THEN out
    ELSE Better(out, out2, JaccAfter(out2), jacc_before)
(***************************************************************************)
(* main and align_with_reference_and_number as a process: one action from  *)
(* the start of main to the first aligner run, one for each aligner run    *)
(* with all the code that follows it, one for the end of the process.      *)
(***************************************************************************)
MaxCandidates == 2   \* runs of main in one behaviour

NoFile == [exists |-> FALSE, text |-> << >>]
File(text) == [exists |-> TRUE, text |-> text]

\* d without the key k
Without(d, k) ==
    IF DOMAIN d \ {k} = {} THEN << >>
    ELSE [x \in DOMAIN d \ {k} |-> d[x]]

RefSeq == <<"A", "C", "A", "A", "A", "G", "G", "G", "G", "T">>
RefHeader == <<">", "r">>
CandHeader == <<">", "c">>

\* the base reference: missing, of zero bytes, without header, well formed
RefFiles ==
    {NoFile, File(<< >>), File(Wrap(RefSeq, WrapWidth)),
     File(FastaText(<<<<RefHeader, RefSeq>>>>, WrapWidth))}

\* the candidates: the reference itself; with an inverted segment; one whose
\* flip lowers the k-mer similarity; a rotation of the reference; a shorter
\* one; a diverged rotation
CandidateSeqs ==
    {RefSeq,
     <<"A", "C", "C", "C", "C", "T", "T", "T", "G", "T">>,
     <<"A", "C", "A", "A", "A", "G", "T", "G", "G", "C">>,
     <<"G", "T", "A", "C", "A", "A", "A", "G", "G", "G">>,
     <<"A", "C", "A", "A", "A", "G", "G", "G", "G">>,
     <<"C", "C", "C", "A", "C", "G", "G", "G", "G", "T">>}

\* --fasta: missing, of zero bytes, or one record
CandidateFiles ==
    {NoFile, File(<< >>)}
    \cup {File(FastaText(<<<<CandHeader, s>>>>, WrapWidth)) : s \in CandidateSeqs}

\* --tsv: no rows, or a header and one row that makes position 2 a C
TallyTables ==
    {<< >>,
     << << <<"C", "H", "R", "O", "M">>, <<"P", "O", "S">> >>,
        << <<"c", "h", "r", "1">>, <<"2">>, <<"0">>, <<"0">>, <<"0">>, <<"1">>,
           <<"0">>, <<"0">> >> >>}

\* --confianza
Confianzas == {<<1, 2>>, <<19, 20>>}

NoLoc ==
    [fasta_in |-> NoFile, min_identity |-> <<0, 1>>, enable_ssc_fix |-> FALSE,
     oneline |-> << >>, ref_fasta |-> << >>, ref_n |-> 0, next_n |-> 0,
     cleanup_rotated |-> FALSE, rotated_query |-> << >>,
     out |-> << >>, ssc |-> NoSsc, mafft2 |-> FALSE, rc2 |-> "none",
     out2 |-> << >>, out_best |-> << >>, gated |-> FALSE,
     gate |-> [ok |-> FALSE, identity |-> <<0, 1>>, considered |-> 0, L |-> 0],
     written |-> << >>]

NoRet == [kind |-> "none", n |-> 0, stage |-> "none"]
Raised(stage) == [kind |-> "raised", n |-> 0, stage |-> stage]
ReturnedNone(stage) == [kind |-> "None", n |-> 0, stage |-> stage]
ReturnedPath(n) == [kind |-> "path", n |-> n, stage |-> "accepted"]

InitPipe ==
    /\ pc = "idle"
    /\ RES_DIR = << >>
    /\ DISCARD_DIR = << >>
    /\ REF_DIR = NoFile
    /\ files = << >>
    /\ loc = NoLoc
    /\ ret = NoRet
    /\ calls = 0

\* "next_n = max_n + 1"
NextNMut(max_n) == max_n
NextN(max_n) == max_n + 1

\* lines 240-252: max_n of existentes, 0 when there is none
MaxN(dir) ==
    IF DOMAIN dir = {} THEN 0
    ELSE CHOOSE n \in DOMAIN dir : \A m \in DOMAIN dir : n >= m

NameHint == <<"q">>     \* normalize_basename(fasta_in.stem)
Species == <<"s">>      \* --species

\* The names of the temporary files, for one path of oneline_fasta:
\* <stem>_rotated_k200.fasta, <stem of rotated_query>_sscflip_<s>_<e>.fasta,
\* .tmp_mafft_input_<n>.fasta and .tmp_mafft_input_<n>_flip.fasta
RotatedPath == "rotated"
FlipName(rotated, start_1based, end_1based) ==
    (IF rotated THEN "rotated_sscflip_" ELSE "sscflip_")
    \o ToString(start_1based) \o "_" \o ToString(end_1based)
FlipPath(l) == FlipName(l.cleanup_rotated, l.ssc.cuts[1], l.ssc.cuts[2])
TmpIn(next_n) == "tmp_mafft_input_" \o ToString(next_n)
TmpIn2(next_n) == "tmp_mafft_input_" \o ToString(next_n) \o "_flip"

\* the process ends in main or in align_with_reference_and_number
End(f, l, r) ==
    /\ pc' = "done"
    /\ files' = f
    /\ loc' = l
    /\ ret' = r
    /\ UNCHANGED <<RES_DIR, DISCARD_DIR>>

\* lines 421-439: the copy of tmp_aln to Resultados or descartesalineamiento
Save(f2, l, q, copy) ==
    /\ pc' = "done"
    /\ files' = f2
    /\ loc' = [l EXCEPT !.gated = TRUE, !.gate = q, !.written = copy]
    /\ IF q.ok
       THEN /\ RES_DIR' = DictSet(RES_DIR, l.next_n, copy)
            /\ ret' = ReturnedPath(l.next_n)
            /\ UNCHANGED DISCARD_DIR
       ELSE /\ DISCARD_DIR' = DictSet(DISCARD_DIR, l.next_n, copy)
            /\ ret' = ReturnedNone("rejected")
            /\ UNCHANGED RES_DIR

\* lines 410-416: the flip candidate and the rotated copy are removed
Cleanup(f, l) ==
    IF l.cleanup_rotated
    THEN Without(IF l.ssc.flipped THEN Without(f, FlipPath(l)) ELSE f, RotatedPath)
    ELSE IF l.ssc.flipped THEN Without(f, FlipPath(l)) ELSE f

\* lines 410-439: cleanup, quality gate, the oneline copy of the alignment;
\* tmp_aln holds out_best and is removed once copied
Finish(f, l) ==
    \E awk \in BOOLEAN :
        Save(Cleanup(f, l), l,
             _assess_alignment_quality(l.out_best, l.min_identity),
             write_oneline_copy(l.out_best, awk))

\* lines 269-290: the rotation has run; the input of the first run is written
Rotated(l1, ref_text, rot) ==
    IF rot.raised THEN End(files, l1, Raised("rotate"))
    ELSE /\ pc' = "mafft1"
         /\ files' = DictSet(IF rot.rotated THEN DictSet(files, RotatedPath, rot.text)
                             ELSE files,
                             TmpIn(l1.next_n), MafftInput(ref_text, rot.text))
         /\ loc' = [l1 EXCEPT !.cleanup_rotated = rot.rotated,
                              !.rotated_query = rot.text]
         /\ ret' = NoRet
         /\ UNCHANGED <<RES_DIR, DISCARD_DIR>>

\* lines 254-269 for the reference chosen
Checked(l1, ref_fasta, oneline_fasta) ==
    IF l1.ref_n = 0 /\ ~ref_fasta.exists
    THEN End(files, l1, ReturnedNone("no_reference"))
    ELSE IF ref_fasta.text = << >>
    THEN End(files, l1, ReturnedNone("empty_reference"))
    ELSE IF oneline_fasta = << >>
    THEN End(files, l1, ReturnedNone("empty_query"))
    ELSE Rotated(l1, ref_fasta.text,
                 rotate_to_reference_anchor(ref_fasta.text, oneline_fasta,
                                            RotK, RotMaxMM))

\* lines 240-261: the reference and the number of the result
Numbered(l0, oneline_fasta, max_n, ref_fasta) ==
    Checked([l0 EXCEPT !.oneline = oneline_fasta, !.ref_fasta = ref_fasta.text,
                       !.ref_n = max_n,
                       !.next_n = IF max_n > 0 THEN NextN(max_n) ELSE 1],
            ref_fasta, oneline_fasta)

\* align_with_reference_and_number up to the first run of the aligner
align_with_reference_and_number(l0, oneline_fasta, max_n) ==
    Numbered(l0, oneline_fasta, max_n,
             IF max_n > 0 THEN File(RES_DIR[max_n]) ELSE REF_DIR')

\* main, lines 1218-1243
Main(fasta_in, tsv, min_identity, enable_ssc_fix, awk) ==
    IF ~fasta_in.exists
    THEN End(files,
             [NoLoc EXCEPT !.fasta_in = fasta_in, !.min_identity = min_identity,
                           !.enable_ssc_fix = enable_ssc_fix],
             Raised("apply_mutations"))
    ELSE align_with_reference_and_number(
             [NoLoc EXCEPT !.fasta_in = fasta_in, !.min_identity = min_identity,
                           !.enable_ssc_fix = enable_ssc_fix],
             write_oneline_copy(
                 rename_header_inplace(
                     apply_mutations_single_contig(fasta_in.text,
                                                   load_mutations(tsv, << >>)),
                     NameHint, Species),
                 awk),
             MaxN(RES_DIR))

Start ==
    /\ pc = "idle"
    /\ calls < MaxCandidates
    /\ calls' = calls + 1
    /\ \E ref \in IF DOMAIN RES_DIR = {} THEN RefFiles ELSE {REF_DIR} :
          REF_DIR' = ref
    /\ \E fasta_in \in CandidateFiles, tsv \in TallyTables,
          min_identity \in Confianzas, enable_ssc_fix \in BOOLEAN, awk \in BOOLEAN :
          Main(fasta_in, tsv, min_identity, enable_ssc_fix, awk)
    /\ UNCHANGED <<fnVars, lmVars>>

\* lines 308-376 and, where no second run follows, to the end
AfterFirstRun(f, l, ssc) ==
    IF ssc.raised THEN End(f, l, Raised("micro_sw"))
    ELSE IF ssc.flipped
    THEN /\ pc' = "mafft2"
         /\ files' = DictSet(DictSet(f, FlipPath(l), ssc.flip_text),
                             TmpIn2(l.next_n),
                             MafftInput(l.ref_fasta, ssc.flip_text))
         /\ loc' = l
         /\ UNCHANGED <<ret, RES_DIR, DISCARD_DIR>>
    ELSE Finish(f, l)

FirstRun(f, run, ssc) ==
    AfterFirstRun(f, [loc EXCEPT !.out = run.out, !.out_best = run.out,
                                 !.ssc = ssc], ssc)

\* lines 286-376: the first run, and the code up to the second run or to
\* the end
Mafft1 ==
    /\ pc = "mafft1"
    /\ \E run \in AlignerRuns(files[TmpIn(loc.next_n)]) :
          IF run.rc = "raised"
          THEN End(Without(files, TmpIn(loc.next_n)), loc, Raised("mafft1"))
          ELSE IF run.rc # "0"
          THEN End(IF loc.cleanup_rotated
                   THEN Without(Without(files, TmpIn(loc.next_n)), RotatedPath)
                   ELSE Without(files, TmpIn(loc.next_n)),
                   loc, ReturnedNone("mafft_failed"))
          ELSE FirstRun(Without(files, TmpIn(loc.next_n)), run,
                        SscFix(run.out, loc.rotated_query, loc.enable_ssc_fix))
    /\ UNCHANGED <<fnVars, lmVars, REF_DIR, calls>>

\* lines 379-439: the second run and the rest of the function
Mafft2 ==
    /\ pc = "mafft2"
    /\ \E run \in AlignerRuns(files[TmpIn2(loc.next_n)]) :
          IF run.rc = "raised"
          THEN End(Without(files, TmpIn2(loc.next_n)),
                   [loc EXCEPT !.mafft2 = TRUE, !.rc2 = run.rc, !.out2 = run.out],
                   Raised("mafft2"))
          ELSE Finish(Without(files, TmpIn2(loc.next_n)),
                      [loc EXCEPT !.mafft2 = TRUE, !.rc2 = run.rc, !.out2 = run.out,
                                  !.out_best = OutBest(loc.out, run.rc, run.out,
                                                       loc.ssc.jacc_before)])
    /\ UNCHANGED <<fnVars, lmVars, REF_DIR, calls>>

\* the process has ended: its locals are gone
Exit ==
    /\ pc = "done"
    /\ pc' = "idle"
    /\ loc' = NoLoc
    /\ ret' = NoRet
    /\ UNCHANGED <<fnVars, lmVars, RES_DIR, DISCARD_DIR, REF_DIR, files, calls>>
(***************************************************************************)
(* Specification of the quality gate as a pure function.                   *)
(***************************************************************************)
InitFn == fn_called = "none" /\ fn_args = << >> /\ fn_result = << >>
InitLM == muts = << >> /\ tsv_rows = {}

AssessQuality ==
    /\ fn_called = "none"
    /\ \E text \in GateTexts, min_identity \in Thresholds :
          /\ fn_args' = [mafft_output |-> text, min_identity |-> min_identity]
          /\ fn_result' = _assess_alignment_quality(text, min_identity)
    /\ fn_called' = "_assess_alignment_quality"
    /\ UNCHANGED lmVars
    /\ UNCHANGED pipeVars

Init == InitFn /\ InitLM /\ InitPipe
NextQG == AssessQuality
SpecQG == Init /\ [][NextQG]_vars


LoadLine ==
    /\ fn_called = "none"
    /\ \E line \in TallyLines :
          /\ muts' = load_mutations_line(muts, line)
          /\ tsv_rows' = tsv_rows \cup RowSeen(line)
    /\ UNCHANGED fnVars
    /\ UNCHANGED pipeVars

\* the end of the file: load_mutations returns muts
LoadReturn ==
    /\ fn_called = "none"
    /\ fn_called' = "load_mutations"
    /\ fn_result' = muts
    /\ UNCHANGED <<fn_args, muts, tsv_rows>>
    /\ UNCHANGED pipeVars

NextLM == LoadLine \/ LoadReturn
SpecLM == Init /\ [][NextLM]_vars


(***************************************************************************)
(* Specification of the pipeline.                                          *)
(***************************************************************************)
Next == Start \/ Mafft1 \/ Mafft2 \/ Exit
Spec == Init /\ [][Next]_vars

(***************************************************************************)
(* Specifications of single functions: Init, and one action that calls    *)
(* the function on arguments drawn from a bounded set and keeps the        *)
(* arguments and the result.                                               *)
(***************************************************************************)
\* refFwd=2, refRev=1, A=10: a row of the tally table of BAMtsv.py
ExampleLine ==
    <<<<"chr1">>, <<"1">>, <<"2">>, <<"1">>, <<"1", "0">>, <<"0">>, <<"0">>, <<"0">>>>

\* a row whose counts are all 0
ZeroLine ==
    <<<<"chr1">>, <<"1">>, <<"0">>, <<"0">>, <<"0">>, <<"0">>, <<"0">>, <<"0">>>>

\* tables of one row, and of a row that records nothing followed by a
\* well-formed row
TallyTexts ==
    {<<l>> : l \in TallyLines \cup {ExampleLine}}
    \cup {<<o, l>> : o \in OtherLines \cup {ZeroLine},
                     l \in WellFormedLines \cup {ExampleLine}}

LoadTable ==
    /\ fn_called = "none"
    /\ \E tsv \in TallyTexts :
          /\ fn_args' = [tsv |-> tsv]
          /\ fn_result' = load_mutations(tsv, << >>)
    /\ fn_called' = "load_mutations"
    /\ UNCHANGED lmVars
    /\ UNCHANGED pipeVars

NextLT == LoadTable
SpecLT == Init /\ [][NextLT]_vars

MaxSeqLen == 3     \* nucleotides of a draft sequence

\* draft sequences, of an upper-case and a lower-case character
DraftSeqs == UNION {TuplesOf({"A", "c"}, n) : n \in 0..MaxSeqLen}

\* Mutation Maps: keys below 1, within and beyond the sequences
MutationMaps ==
    UNION {[K -> {"G", "T"}] : K \in SUBSET ((0 - 1)..(MaxSeqLen + 1))}

\* the draft as a file: one contig, or two, the lines wrapped
DraftFiles(seq) ==
    {FastaText(<<<<CandHeader, seq>>>>, WrapWidth),
     FastaText(<<<<CandHeader, seq>>, <<CandHeader, <<"G", "G">>>>>>, WrapWidth)}

ApplyMutations ==
    /\ fn_called = "none"
    /\ \E seq \in DraftSeqs, mutmap \in MutationMaps :
          \E fasta_in \in DraftFiles(seq) :
             /\ fn_args' = [seq |-> seq, fasta_in |-> fasta_in, muts |-> mutmap]
             /\ fn_result' = apply_mutations_single_contig(fasta_in, mutmap)
    /\ fn_called' = "apply_mutations_single_contig"
    /\ UNCHANGED lmVars
    /\ UNCHANGED pipeVars

NextAM == ApplyMutations
SpecAM == Init /\ [][NextAM]_vars

RotLen == 4        \* nucleotides of the sequences given to the rotation
RotTolerance == 1  \* the highest max_mismatches given to the rotation

RotSeqs == TuplesOf({"A", "C", "G"}, RotLen)

\* rotate_to_reference_anchor on the one-record files of ref and query
RotateToAnchor ==
    /\ fn_called = "none"
    /\ \E ref \in RotSeqs, query \in RotSeqs, max_mismatches \in 0..RotTolerance :
          /\ fn_args' = [ref |-> ref, query |-> query, k_first |-> RotK,
                         max_mismatches |-> max_mismatches]
          /\ fn_result' = rotate_to_reference_anchor(<<RefHeader, ref>>,
                                                     <<CandHeader, query>>,
                                                     RotK, max_mismatches)
    /\ fn_called' = "rotate_to_reference_anchor"
    /\ UNCHANGED lmVars
    /\ UNCHANGED pipeVars

\* line 730 at the cut c, and again at len(s) - c
RotateTwice ==
    /\ fn_called = "none"
    /\ \E s \in UNION {TuplesOf({"A", "C", "G"}, n) : n \in 1..RotLen} :
          \E c \in 0..(Len(s) - 1) :
             /\ fn_args' = [s |-> s, c |-> c]
             /\ fn_result' = [once |-> RotateAt(s, c),
                              twice |-> RotateAt(RotateAt(s, c), Len(s) - c)]
    /\ fn_called' = "RotateAt"
    /\ UNCHANGED lmVars
    /\ UNCHANGED pipeVars

NextRot == RotateToAnchor \/ RotateTwice
SpecRot == Init /\ [][NextRot]_vars

SwLen == 3         \* characters of the strings given to the local alignment

SwStrings == UNION {TuplesOf({"A", "C"}, n) : n \in 0..SwLen}
SelfStrings == UNION {TuplesOf(BaseSet, n) : n \in 1..SwLen}
ExampleString ==
    <<"A", "C", "G", "T", "A", "C", "G", "T", "A", "C", "G", "T">>

\* _smith_waterman_endpoints(a, b) with the default scores, on every pair of
\* short strings and on every string against itself
SmithWaterman ==
    /\ fn_called = "none"
    /\ \E p \in (SwStrings \X SwStrings)
                \cup {<<s, s>> : s \in SelfStrings \cup {ExampleString}} :
          /\ fn_args' = [a |-> p[1], b |-> p[2]]
          /\ fn_result' = _smith_waterman_endpoints(p[1], p[2], 2, 0 - 1, 0 - 2)
    /\ fn_called' = "_smith_waterman_endpoints"
    /\ UNCHANGED lmVars
    /\ UNCHANGED pipeVars

NextSW == SmithWaterman
SpecSW == Init /\ [][NextSW]_vars

ConsCells == 4     \* characters of the alignments given to the consensus
ConsLen == 2       \* columns of the alignments given to the consensus

ConsChars == {"A", "a", "C", "t", "-", "R"}
ConsShapes == {<<n, L>> \in (1..ConsCells) \X (0..ConsLen) : n * L <= ConsCells}
ConsAlignments ==
    UNION { TuplesOf(TuplesOf(ConsChars, sh[2]), sh[1]) : sh \in ConsShapes }
ConsInputs ==
    ConsAlignments
    \cup { Ragged(a) \o <<a[1]>> : a \in {x \in ConsAlignments : Len(x[1]) > 0} }

\* _consensus_from_entries(aligned_seqs) on every small alignment and on the
\* same with a first row one character short
ConsensusFromEntries ==
    /\ fn_called = "none"
    /\ \E a \in ConsInputs :
          /\ fn_args' = [aligned_seqs |-> a]
          /\ fn_result' = _consensus_from_entries(a)
    /\ fn_called' = "_consensus_from_entries"
    /\ UNCHANGED lmVars
    /\ UNCHANGED pipeVars

NextCons == ConsensusFromEntries
SpecCons == Init /\ [][NextCons]_vars

InvLen == 10       \* columns of the pairs given to the inversion detector

InvWindows == {SscWindow, InvLen + 1}

\* the consensus rows: all A, the same with N in the first column, and the
\* same with a gap in the last
InvConsensus(L) ==
    { [i \in 1..L |-> "A"],
      [i \in 1..L |-> IF i = 1 THEN "N" ELSE "A"],
      [i \in 1..L |-> IF i = L THEN "-" ELSE "A"] }

\* the newest rows: every row over a, C, and the same with a gap in column 2
InvNew(L) ==
    TuplesOf({"a", "C"}, L)
    \cup {[i \in 1..L |-> IF i = 2 THEN "-" ELSE s[i]] : s \in TuplesOf({"a", "C"}, L)}

\* every consensus row against every newest row of its length, every newest
\* row against itself, and a consensus row one column short
InvPairs ==
    UNION { (InvConsensus(L) \X InvNew(L))
            \cup {<<s, s>> : s \in InvNew(L)}
            \cup {<<SubSeq(s, 1, L - 1), s>> : s \in TuplesOf({"a"}, L)}
          : L \in 0..InvLen }

\* _detect_inversion_block(consensus_aln, new_aln, window, thr=0.60, min_span),
\* with the window of the caller and with one no row can hold
DetectInversionBlock ==
    /\ fn_called = "none"
    /\ \E p \in InvPairs, window \in InvWindows :
          /\ fn_args' = [consensus_aln |-> p[1], new_aln |-> p[2], window |-> window,
                         thr |-> <<3, 5>>, min_span |-> SscMinSpan]
          /\ fn_result' = _detect_inversion_block(p[1], p[2], window, <<3, 5>>, SscMinSpan)
    /\ fn_called' = "_detect_inversion_block"
    /\ UNCHANGED lmVars
    /\ UNCHANGED pipeVars

NextInv == DetectInversionBlock
SpecInv == Init /\ [][NextInv]_vars

JacLen == 3        \* characters of the sequences given to the k-mer similarity
JacK == 2          \* the highest k given to the k-mer similarity

JacSeqs == UNION {TuplesOf({"A", "c", "N", "R"}, n) : n \in 0..JacLen}

\* _kmer_jaccard(s1, s2, k) on every pair of short sequences
KmerJaccard ==
    /\ fn_called = "none"
    /\ \E s1 \in JacSeqs, s2 \in JacSeqs, k \in 1..JacK :
          /\ fn_args' = [s1 |-> s1, s2 |-> s2, k |-> k]
          /\ fn_result' = _kmer_jaccard(s1, s2, k)
    /\ fn_called' = "_kmer_jaccard"
    /\ UNCHANGED lmVars
    /\ UNCHANGED pipeVars

NextJac == KmerJaccard
SpecJac == Init /\ [][NextJac]_vars

PileLen == 3       \* characters of the base-call field of a pileup row

PileupChars == {"^", "$", ".", ",", "+", "-", "a", "*", "R", "1"}
\* an insertion of one base and a deletion of two among other symbols
PileupExamples ==
    { <<"+", "1", "a", ".">>, <<",", "-", "2", "a", "c", "$">>,
      <<"^", "!", ".", "*", "R">> }
PileupBases == UNION {TuplesOf(PileupChars, n) : n \in 0..PileLen} \cup PileupExamples

\* CHROM POS REF DEPTH BASES QUALS
PileupLine(pos, bases) == <<<<"chr1">>, pos, <<"A">>, <<"3">>, bases, <<"I">>>>

\* the rows of every short base-call field, a row whose POS is no number
\* and a row without QUALS
PileupLines ==
    {PileupLine(<<"7">>, b) : b \in PileupBases}
    \cup {PileupLine(<<"x">>, <<".">>), SubSeq(PileupLine(<<"7">>, <<".">>), 1, 5)}

\* parse_pileup_line(line)
ParsePileupLine ==
    /\ fn_called = "none"
    /\ \E line \in PileupLines :
          /\ fn_args' = [line |-> line]
          /\ fn_result' = parse_pileup_line(line)
    /\ fn_called' = "parse_pileup_line"
    /\ UNCHANGED lmVars
    /\ UNCHANGED pipeVars

NextPile == ParsePileupLine
SpecPile == Init /\ [][NextPile]_vars

RefLen == 10       \* columns of the pairs given to the cut-point refiners

\* the consensus rows: all A, and A and C in turn
RefCons == {[i \in 1..RefLen |-> "A"], [i \in 1..RefLen |-> IF i % 2 = 1 THEN "A" ELSE "C"]}

\* the newest rows: every row over A, C, and the same with a gap in column 1
RefNew ==
    TuplesOf({"A", "C"}, RefLen)
    \cup {[i \in 1..RefLen |-> IF i = 1 THEN "-" ELSE s[i]] : s \in TuplesOf({"A", "C"}, RefLen)}

\* the blocks of columns (0-based) that leave MemFlank columns on each side
RefBlocks == {<<s, e>> \in (MemFlank..(MemFlank + 1)) \X ((RefLen - MemFlank - 2)..(RefLen - MemFlank - 1)) : s < e}

\* lines 328-352 of align_with_reference_and_number for a block: the result
\* of the MEM refiner, of the simple refiner, and the strategy whose cuts
\* are used
RefineCutpoints ==
    /\ fn_called = "none"
    /\ \E c \in RefCons, n \in RefNew, b \in RefBlocks :
          /\ fn_args' = [consensus_aln |-> c, new_aln |-> n, s_col |-> b[1], e_col |-> b[2]]
          /\ fn_result' =
                [mem |-> _refine_cutpoints_by_mem_anchors(c, n, b[1], b[2],
                             MemFlank, MemKInit, MemKMin, MemSearchSpan),
                 simple |-> _refine_cutpoints_by_anchors(c, n, b[1], b[2],
                             AnchorFlank, AnchorK),
                 stage |-> AnchoredCuts(BaseCuts(c, n, b[1], b[2]),
                             _refine_cutpoints_by_mem_anchors(c, n, b[1], b[2],
                                 MemFlank, MemKInit, MemKMin, MemSearchSpan),
                             _refine_cutpoints_by_anchors(c, n, b[1], b[2],
                                 AnchorFlank, AnchorK)).stage]
    /\ fn_called' = "refine_cutpoints"
    /\ UNCHANGED lmVars
    /\ UNCHANGED pipeVars

NextRef == RefineCutpoints
SpecRef == Init /\ [][NextRef]_vars

\* the pairs _detect_inversion_block goes on with: rows of one length, not
\* empty
InvAligned == {p \in InvPairs : Len(p[1]) = Len(p[2]) /\ Len(p[2]) > 0}

\* lines 955-966 of _detect_inversion_block: the list bad_windows, for the
\* window of the caller and for one twice as wide
SlidingWindows ==
    /\ fn_called = "none"
    /\ \E p \in InvAligned, window \in {SscWindow, 2 * SscWindow} :
          /\ fn_args' = [consensus_aln |-> p[1], new_aln |-> p[2], window |-> window,
                         step |-> Max(StepFloor, window \div 4), thr |-> <<3, 5>>]
          /\ fn_result' = BadWindows(p[1], p[2], 0, window,
                                     Max(StepFloor, window \div 4), <<3, 5>>)
    /\ fn_called' = "bad_windows"
    /\ UNCHANGED lmVars
    /\ UNCHANGED pipeVars


\* "merged" of lines 968-978 for a list of windows, << >> for an empty list
MergedOf(bad_windows, step) ==
    IF bad_windows = << >> THEN << >>
    ELSE MergeWindows(Tail(bad_windows), Head(bad_windows)[1], Head(bad_windows)[2], step)

\* lines 968-989 of _detect_inversion_block: the merged blocks and the block
\* the sliding-window stage returns (<< >>: it returns nothing)
WindowBlocks ==
    /\ fn_called = "none"
    /\ \E p \in InvAligned :
          /\ fn_args' = [consensus_aln |-> p[1], new_aln |-> p[2], window |-> SscWindow,
                         step |-> Max(StepFloor, SscWindow \div 4), thr |-> <<3, 5>>,
                         min_span |-> SscMinSpan]
          /\ fn_result' =
                [bad_windows |-> BadWindows(p[1], p[2], 0, SscWindow,
                                            Max(StepFloor, SscWindow \div 4), <<3, 5>>),
                 merged |-> MergedOf(BadWindows(p[1], p[2], 0, SscWindow,
                                         Max(StepFloor, SscWindow \div 4), <<3, 5>>),
                                     Max(StepFloor, SscWindow \div 4)),
                 best |-> BestBlock(p[1], p[2],
                              MergedOf(BadWindows(p[1], p[2], 0, SscWindow,
                                           Max(StepFloor, SscWindow \div 4), <<3, 5>>),
                                       Max(StepFloor, SscWindow \div 4)),
                              SscMinSpan, << >>, -1)]
    /\ fn_called' = "window_blocks"
    /\ UNCHANGED lmVars
    /\ UNCHANGED pipeVars

NextWin == SlidingWindows \/ WindowBlocks
SpecWin == Init /\ [][NextWin]_vars

\* "best" of lines 968-989 for a pair and a window
StageOne(c, n, window, thr, min_span) ==
    BestBlock(c, n,
              MergedOf(BadWindows(c, n, 0, window, Max(StepFloor, window \div 4), thr),
                       Max(StepFloor, window \div 4)),
              min_span, << >>, -1)

\* _detect_inversion_block with what its two stages find: the block of the
\* sliding windows, <<max_sum, best_s, best_e>> of the fallback, and the
\* block returned
KadaneFallback ==
    /\ fn_called = "none"
    /\ \E p \in InvAligned, window \in InvWindows :
          /\ fn_args' = [consensus_aln |-> p[1], new_aln |-> p[2], window |-> window,
                         thr |-> <<3, 5>>, min_span |-> SscMinSpan]
          /\ fn_result' =
                [stage_one |-> StageOne(p[1], p[2], window, <<3, 5>>, SscMinSpan),
                 kadane |-> Kadane(p[1], p[2], 0, 0, 0, -1, -1, 0),
                 block |-> _detect_inversion_block(p[1], p[2], window, <<3, 5>>, SscMinSpan)]
    /\ fn_called' = "kadane_fallback"
    /\ UNCHANGED lmVars
    /\ UNCHANGED pipeVars

NextKad == KadaneFallback
SpecKad == Init /\ [][NextKad]_vars

MapLen == 4        \* columns of the rows given to the column-to-position map

MapRows == UNION {TuplesOf({"A", "c", "-", "N", "R"}, n) : n \in 0..MapLen}

\* _map_alncol_to_pos(seq_aln), with the ungapped form of the row
MapAlncolToPos ==
    /\ fn_called = "none"
    /\ \E row \in MapRows :
          /\ fn_args' = [seq_aln |-> row]
          /\ fn_result' = [col2pos |-> _map_alncol_to_pos(row), ungapped |-> _ungap(row)]
    /\ fn_called' = "_map_alncol_to_pos"
    /\ UNCHANGED lmVars
    /\ UNCHANGED pipeVars

NextMap == MapAlncolToPos
SpecMap == Init /\ [][NextMap]_vars

FlipLen == 4       \* bases of the one-line FASTA given to the segment flip

FlipSeqs == UNION {TuplesOf({"A", "C", "G", "T", "N"}, n) : n \in 1..FlipLen}

\* _flip_segment_in_oneline(oneline_fa, start_1based, end_1based) on a
\* one-line FASTA, and the same call on the file it has written
FlipSegmentInOneline ==
    /\ fn_called = "none"
    /\ \E s \in FlipSeqs :
          \E start_1based \in 1..Len(s) :
             \E end_1based \in start_1based..Len(s) :
                /\ fn_args' = [oneline_fa |-> <<CandHeader, s>>,
                               start_1based |-> start_1based,
                               end_1based |-> end_1based]
                /\ fn_result' =
                       [once |-> _flip_segment_in_oneline(<<CandHeader, s>>,
                                                          start_1based, end_1based),
                        twice |-> _flip_segment_in_oneline(
                                      _flip_segment_in_oneline(<<CandHeader, s>>,
                                                               start_1based,
                                                               end_1based).text,
                                      start_1based, end_1based)]
    /\ fn_called' = "_flip_segment_in_oneline"
    /\ UNCHANGED lmVars
    /\ UNCHANGED pipeVars

NextFlip == FlipSegmentInOneline
SpecFlip == Init /\ [][NextFlip]_vars

\* the rows of an alignment of equal-length rows: the rows before the newest
\* that _assess_alignment_quality and the SSC stage take from one aligner
\* output
PrevRows == {a \in ConsAlignments : Len(a[1]) > 0}

\* consensus_base on every column of the rows, as in the loop of
\* _assess_alignment_quality, and _consensus_from_entries on the same rows
ConsensusOfPrev ==
    /\ fn_called = "none"
    /\ \E prev \in PrevRows :
          /\ fn_args' = [prev |-> prev]
          /\ fn_result' =
                 [gate |-> [i \in 1..Len(prev[1]) |->
                               consensus_base([r \in DOMAIN prev |-> prev[r][i]])],
                  ssc |-> _consensus_from_entries(prev)]
    /\ fn_called' = "consensus_of_prev"
    /\ UNCHANGED lmVars
    /\ UNCHANGED pipeVars

NextAgree == ConsensusOfPrev
SpecAgree == Init /\ [][NextAgree]_vars
(***************************************************************************)
(* Statements about the quality gate.  The prior rows and the newest row   *)
(* of the text that was assessed, and the consensus of a column stated     *)
(* directly: the base with the highest case-insensitive count, the first   *)
(* in the order A, C, G, T among equals, none when no prior row has a      *)
(* base there.                                                             *)
(***************************************************************************)
GateCalled == fn_called = "_assess_alignment_quality"
GateEntries == _parse_fasta_string(fn_args.mafft_output)
GatePrev == [k \in 1..(Len(GateEntries) - 1) |-> GateEntries[k][2]]
GateNew == GateEntries[Len(GateEntries)][2]
GateWellFormed ==
    /\ Len(GateEntries) >= 2
    /\ Len(GateNew) > 0
    /\ \A k \in DOMAIN GatePrev : Len(GatePrev[k]) = Len(GateNew)

Rank(b) == CHOOSE k \in DOMAIN Bases : Bases[k] = b
ColumnCount(prev, i, b) == Cardinality({k \in DOMAIN prev : upper(prev[k][i]) = b})
ColumnConsensus(prev, i) ==
    IF \A b \in BaseSet : ColumnCount(prev, i, b) = 0 THEN None
    ELSE CHOOSE b \in BaseSet : \A c \in BaseSet :
            \/ ColumnCount(prev, i, b) > ColumnCount(prev, i, c)
            \/ /\ ColumnCount(prev, i, b) = ColumnCount(prev, i, c)
               /\ Rank(b) <= Rank(c)

MatchColumns ==
    {i \in DOMAIN GateNew : upper(GateNew[i]) = ColumnConsensus(GatePrev, i)}
\* columns with a consensus where the newest row has an unambiguous base
BaseColumns ==
    {i \in DOMAIN GateNew : /\ upper(GateNew[i]) \in BaseSet
                            /\ ColumnConsensus(GatePrev, i) # None}

\* C1: the gate accepts exactly when considered > 0 and
\* matches / considered >= min_identity, a match being a column whose
\* newest-row base equals the consensus of the prior rows; the reported
\* identity is matches / considered, and with considered = 0 the identity
\* is 0.0 and the verdict is reject.
C1_GateVerdict ==
    GateCalled =>
        LET r == fn_result
            thr == fn_args.min_identity
        IN  /\ r.considered = 0 => (r.identity = <<0, 1>> /\ ~r.ok)
            /\ r.considered > 0 =>
                  /\ GateWellFormed
                  /\ r.identity = <<Cardinality(MatchColumns), r.considered>>
                  /\ r.ok <=> (Cardinality(MatchColumns) * thr[2]
                                  >= thr[1] * r.considered)

\* C1 witness: a two-column alignment with one match is accepted at the
\* threshold 1/2 it meets exactly, and an alignment with nothing to
\* consider is rejected at the threshold 0.
C1_Witness ==
    /\ GateCalled
    /\ fn_args.min_identity = <<1, 2>>
    /\ fn_result.considered = 2
    /\ fn_result.identity = <<1, 2>>
    /\ fn_result.ok

\* C2: only columns where the newest row has A/C/G/T are considered, so a
\* gap, an N or another ambiguity code in the newest row adds nothing to
\* 'considered' and is never a mismatch.
C2_OnlyBasesConsidered ==
    (GateCalled /\ GateWellFormed) =>
        /\ fn_result.considered <= Cardinality(BaseColumns)
        /\ fn_result.considered - fn_result.identity[1]
              <= Cardinality(BaseColumns \ MatchColumns)


\* C10 as stated: no entry at a position for which some well-formed row
\* with total > 0 has (refFwd+refRev)/total >= 0.5.
C10_NoEntryWhereRefDominates ==
    fn_called = "load_mutations" =>
        \A p \in DOMAIN fn_result : <<p, TRUE>> \notin tsv_rows

\* C10 amended: an entry exists exactly at the positions for which some
\* well-formed row with total > 0 has (refFwd+refRev)/total < 0.5; so no
\* entry at a position all of whose rows have the reference at >= 0.5.
C10_EntryOnlyFromMinorityRow ==
    fn_called = "load_mutations" =>
        DOMAIN fn_result = {p \in 1..MaxPos : <<p, FALSE>> \in tsv_rows}

\* C10 witness: a table with a row where the reference dominates at
\* position 1 and no other kind of row there, next to a recorded mutation.
C10_Witness ==
    /\ fn_called = "load_mutations"
    /\ <<1, TRUE>> \in tsv_rows
    /\ <<1, FALSE>> \notin tsv_rows
    /\ DOMAIN fn_result = {2}


(***************************************************************************)
(* align_with_reference_and_number and main, under Spec                    *)
(***************************************************************************)
\* the call has reached the quality gate and has ended
Gated == pc = "done" /\ loc.gated

\* a flip candidate was written, its second run ended with code 0, the
\* Jaccard after the flip could be computed and is not below the one before
FlipKept ==
    /\ loc.ssc.flipped
    /\ loc.mafft2
    /\ loc.rc2 = "0"
    /\ JaccAfter(loc.out2) # << >>
    /\ JaccAfter(loc.out2)[1] * loc.ssc.jacc_before[2]
           >= loc.ssc.jacc_before[1] * JaccAfter(loc.out2)[2]

\* C3: the alignment handed to the quality gate is the re-aligned flipped
\* alignment only if a flip candidate was produced, its re-alignment
\* succeeded and the Jaccard after the flip is greater than or equal to the
\* Jaccard before it; in every other case it is the first alignment.
C3_FlipAcceptance ==
    Gated =>
        /\ loc.gate = _assess_alignment_quality(loc.out_best, loc.min_identity)
        /\ loc.out_best = IF FlipKept THEN loc.out2 ELSE loc.out

\* a flip was accepted, and the alignment gated differs from the first one
C3_Witness ==
    /\ Gated
    /\ FlipKept
    /\ loc.out_best = loc.out2
    /\ loc.out2 # loc.out

\* the characters of the sequence lines of a file
SeqChars(text) ==
    UNION {{text[i][j] : j \in 1..Len(text[i])} :
           i \in {k \in 1..Len(text) : ~IsHeader(text[k])}}

\* the file of this call in Resultados or in descartesalineamiento
Stored == IF loc.gate.ok THEN RES_DIR[loc.next_n] ELSE DISCARD_DIR[loc.next_n]

Highest(dir) ==
    IF DOMAIN dir = {} THEN 0
    ELSE CHOOSE n \in DOMAIN dir : \A m \in DOMAIN dir : m <= n

\* one step of a candidate's processing, seen from the accepted results
NumberingStep ==
    /\ \A n \in DOMAIN RES_DIR : n \in DOMAIN RES_DIR' /\ RES_DIR'[n] = RES_DIR[n]
    /\ (pc' = "done" /\ ret'.kind = "path") =>
           /\ ret'.n = Highest(RES_DIR) + 1
           /\ DOMAIN RES_DIR' = DOMAIN RES_DIR \cup {ret'.n}
           /\ RES_DIR'[ret'.n] = loc'.written
    /\ ~(pc' = "done" /\ ret'.kind = "path") => RES_DIR' = RES_DIR
    /\ (pc = "idle" /\ pc' = "mafft1") =>
           /\ Highest(RES_DIR) > 0 => loc'.ref_fasta = RES_DIR[Highest(RES_DIR)]
           /\ Highest(RES_DIR) = 0 => loc'.ref_fasta = REF_DIR'.text
           /\ loc'.next_n = Highest(RES_DIR) + 1

\* C5: each accepted candidate is written under the highest accepted number
\* plus one, or 1 when nothing is accepted yet, and the next candidate takes
\* the highest-numbered accepted file as its reference; a rejected or failed
\* candidate adds no file and consumes no number; the files already in the
\* collection stay as they are.
C5_Numbering == [][NumberingStep]_vars

\* two candidates were accepted one after the other, as 1 and as 2, the
\* second one aligned to the first
C5_Witness ==
    /\ pc = "done"
    /\ ret.kind = "path"
    /\ ret.n = 2
    /\ DOMAIN RES_DIR = {1, 2}
    /\ loc.ref_fasta = RES_DIR[1]

\* the temporary files the ended call has created
Created ==
    (IF loc.cleanup_rotated THEN {RotatedPath} ELSE {})
    \cup (IF loc.ssc.flipped THEN {FlipPath(loc)} ELSE {})
    \cup (IF loc.next_n > 0 THEN {TmpIn(loc.next_n), TmpIn2(loc.next_n)} ELSE {})

\* C6: on every exit path of align_with_reference_and_number, errors raised
\* by a stage included, none of the temporary files the call has created
\* remains.
C6_NoTemporaryRemains == pc = "done" => Created \cap DOMAIN files = {}

\* C7: for a detected inversion block no refinement call ends the
\* candidate's processing with an error: the call goes on to the flip test
\* and to the quality gate.
C7_NoRefinementFatal ==
    (pc = "done" /\ loc.ssc.block # << >>) =>
        /\ ~loc.ssc.raised
        /\ ret.stage # "micro_sw"

\* the candidate file or the base reference is missing or holds no record
CandidateMissingOrEmpty == ~loc.fasta_in.exists \/ loc.fasta_in.text = << >>
ReferenceMissingOrEmpty ==
    /\ loc.ref_n = 0
    /\ \/ ~REF_DIR.exists
       \/ REF_DIR.text = << >>
       \/ \A i \in 1..Len(REF_DIR.text) : ~IsHeader(REF_DIR.text[i])

\* C8: with the candidate or the reference missing or empty the processing
\* of the candidate ends with 'no result': no exception leaves main and
\* nothing is written to the accepted results or to the discard area.
C8_MissingInputGivesNone ==
    (pc = "done" /\ (CandidateMissingOrEmpty \/ ReferenceMissingOrEmpty)) =>
        /\ ret.kind = "None"
        /\ ~loc.gated

\* the first alignment has been made, with the SSC fix asked for
FirstAligned ==
    /\ pc \in {"mafft2", "done"}
    /\ loc.enable_ssc_fix
    /\ Len(_parse_fasta_string(loc.out)) >= 2

\* the lengths of the rows of an alignment but the newest
PrevLens(entries) == {Len(entries[k][2]) : k \in 1..(Len(entries) - 1)}

\* the rows accepted before differ in length, or their length is not the
\* length of the newest row
ShapeMismatch(entries) ==
    \/ Cardinality(PrevLens(entries)) > 1
    \/ Len(entries[Len(entries)][2]) \notin PrevLens(entries)

\* C9: where the rows of the first alignment do not share one length, the
\* candidate is not aborted, inversion handling is skipped (no block
\* detection, no cut points, no flip candidate, no second aligner run) and
\* the first alignment goes to the quality gate.
C9_ShapeMismatchSkipsSsc ==
    (FirstAligned /\ ShapeMismatch(_parse_fasta_string(loc.out))) =>
        /\ pc = "done"
        /\ ret.kind # "raised"
        /\ ~loc.ssc.detect_called
        /\ loc.ssc.block = << >>
        /\ loc.ssc.cuts = << >>
        /\ ~loc.ssc.flip_called
        /\ ~loc.ssc.flipped
        /\ ~loc.mafft2
        /\ TmpIn2(loc.next_n) \notin DOMAIN files
        /\ loc.gated
        /\ loc.out_best = loc.out
        /\ loc.gate = _assess_alignment_quality(loc.out, loc.min_identity)

\* consensus building has failed on rows of different lengths and the first
\* alignment was gated
C9_Witness ==
    /\ FirstAligned
    /\ Cardinality(PrevLens(_parse_fasta_string(loc.out))) > 1
    /\ loc.ssc.consensus_failed
    /\ loc.gated

(***************************************************************************)
(* load_mutations on a whole table, under SpecLT                           *)
(***************************************************************************)
\* the rows of a table that are well formed and have total > 0
CountedRows(tsv) ==
    {i \in 1..Len(tsv) : /\ ~LineSkipped(tsv[i])
                         /\ ParseRow(tsv[i]).ok
                         /\ RowTotal(ParseRow(tsv[i])) > 0}

\* refFwd + refRev == 0, or (refFwd + refRev) / total < 0.5
RefInMinority(r) == r.dot + r.comma = 0 \/ 2 * (r.dot + r.comma) < RowTotal(r)

\* the base of the highest count, ties in the order A, C, G, T
TopBase(r) ==
    IF r.A >= r.C /\ r.A >= r.G /\ r.A >= r.T THEN "A"
    ELSE IF r.C >= r.G /\ r.C >= r.T THEN "C"
    ELSE IF r.G >= r.T THEN "G"
    ELSE "T"

\* the rows that record a mutation, and the last of them at position p
RecordingRows(tsv) == {i \in CountedRows(tsv) : RefInMinority(ParseRow(tsv[i]))}
LastRecording(tsv, p) ==
    CHOOSE i \in RecordingRows(tsv) :
        /\ ParseRow(tsv[i]).pos = p
        /\ \A j \in RecordingRows(tsv) : ParseRow(tsv[j]).pos = p => j <= i

\* C11: a well-formed row with total > 0 records a mutation at its position
\* if and only if refFwd+refRev == 0 or (refFwd+refRev)/total < 0.5, and the
\* base recorded is the one of A, C, G, T with the highest count, ties in
\* the order A, C, G, T; blank, comment, header and malformed rows and rows
\* with total == 0 record nothing and the rows after them are still loaded.
C11_RowRecordsMajorityBase ==
    fn_called = "load_mutations" =>
        /\ DOMAIN fn_result =
               {ParseRow(fn_args.tsv[i]).pos : i \in RecordingRows(fn_args.tsv)}
        /\ \A p \in DOMAIN fn_result :
               fn_result[p] =
                   TopBase(ParseRow(fn_args.tsv[LastRecording(fn_args.tsv, p)]))

\* the row refFwd=2, refRev=1, A=10 after a malformed row records 'A'
C11_Witness ==
    /\ fn_called = "load_mutations"
    /\ Len(fn_args.tsv) = 2
    /\ CountedRows(fn_args.tsv) = {2}
    /\ fn_args.tsv[2] = ExampleLine
    /\ fn_result = <<"A">>

(***************************************************************************)
(* apply_mutations_single_contig, under SpecAM                             *)
(***************************************************************************)
\* C12: the sequence written has the length of the first contig of the
\* input; a position p in 1..len(seq) that is a key of the Mutation Map
\* holds the mapped base, every other position is unchanged, and the keys
\* outside 1..len(seq), 0 and negative keys included, change nothing.
C12_CorrectorFrame ==
    fn_called = "apply_mutations_single_contig" =>
        /\ Len(fn_result) = 2
        /\ fn_result[1] = CandHeader
        /\ Len(fn_result[2]) = Len(fn_args.seq)
        /\ \A p \in 1..Len(fn_args.seq) :
              fn_result[2][p] = IF p \in DOMAIN fn_args.muts
                                THEN fn_args.muts[p]
                                ELSE fn_args.seq[p]

\* a map with the key 0, a key within the sequence and a key beyond it has
\* changed the one position it names
C12_Witness ==
    /\ fn_called = "apply_mutations_single_contig"
    /\ Len(fn_args.seq) = 2
    /\ DOMAIN fn_args.muts = {0, 1, 3}
    /\ fn_result[2][1] = fn_args.muts[1]
    /\ fn_result[2][1] # fn_args.seq[1]
    /\ fn_result[2][2] = fn_args.seq[2]

(***************************************************************************)
(* rotate_to_reference_anchor, under SpecRot                               *)
(***************************************************************************)
\* the window of the doubled sequence at the 0-based index pos
DoubledAt(qseq, pos, m) == Slice(qseq \o qseq, pos, pos + m)

\* the matches the three strategies find in the orientation `orient`, each
\* <<orient, cut, mismatches of the match>>
MatchesIn(orient, qseq, ref, k, max_mm) ==
    LET first == Slice(ref, 0, k)
        circ == LastK(ref, k) \o first
        pos == match_with_mismatches(qseq \o qseq, circ, max_mm)
        pos2 == match_with_mismatches(qseq \o qseq, first, max_mm)
    IN  (IF Mismatches(first, Slice(qseq, 0, k)) <= max_mm
         THEN {<<orient, 0, Mismatches(first, Slice(qseq, 0, k))>>} ELSE {})
        \cup (IF pos # -1
              THEN {<<orient, (pos + k) % Len(qseq),
                      Mismatches(circ, DoubledAt(qseq, pos, 2 * k))>>} ELSE {})
        \cup (IF pos2 # -1 /\ pos2 < Len(qseq)
              THEN {<<orient, pos2 % Len(qseq),
                      Mismatches(first, DoubledAt(qseq, pos2, k))>>} ELSE {})

MatchesFound(ref, query, k, max_mm) ==
    MatchesIn("fwd", query, ref, k, max_mm)
    \cup MatchesIn("rev", revcomp(query), ref, k, max_mm)

\* the matches of the fewest mismatches, those of the first orientation
\* where it has one
FewestMismatches(found) ==
    LET least == {x \in found : \A y \in found : x[3] <= y[3]}
    IN  IF \E x \in least : x[1] = "fwd" THEN {x \in least : x[1] = "fwd"}
        ELSE least

\* the sequence a match yields
Applied(x, query) ==
    RotateAt(IF x[1] = "fwd" THEN query ELSE revcomp(query), x[2])

\* C13: among the matches found across both orientations and the three
\* strategies, the one applied has the fewest mismatches, ties going to the
\* orientation tried first.
C13_FewestMismatchesApplied ==
    (fn_called = "rotate_to_reference_anchor"
     /\ MatchesFound(fn_args.ref, fn_args.query, fn_args.k_first,
                     fn_args.max_mismatches) # {}) =>
        \E x \in FewestMismatches(MatchesFound(fn_args.ref, fn_args.query,
                                               fn_args.k_first,
                                               fn_args.max_mismatches)) :
            fn_result.text = <<CandHeader, Applied(x, fn_args.query)>>

\* C14: rotating s at the cut c and the result at len(s) - c gives s again,
\* and each rotation keeps the length of s.
C14_RotationRoundTrip ==
    fn_called = "RotateAt" =>
        /\ fn_result.twice = fn_args.s
        /\ Len(fn_result.once) = Len(fn_args.s)
        /\ Len(fn_result.twice) = Len(fn_args.s)

\* a rotation at a cut within the sequence changed it, and the second one
\* restored it
C14_Witness ==
    /\ fn_called = "RotateAt"
    /\ fn_args.c > 0
    /\ fn_result.once # fn_args.s
    /\ fn_result.once = SubSeq(fn_args.s, fn_args.c + 1, Len(fn_args.s))
                        \o SubSeq(fn_args.s, 1, fn_args.c)
    /\ fn_result.twice = fn_args.s

(***************************************************************************)
(* _smith_waterman_endpoints, under SpecSW                                 *)
(***************************************************************************)
\* the best score of the matrix of a and b, 0 where a string is empty
BestScore(a, b) ==
    IF a = << >> \/ b = << >> THEN 0
    ELSE LET H == HMatrix(a, b, 2, 0 - 1, 0 - 2)
         IN  CHOOSE v \in {H[i][j] : i \in 1..(Len(a) + 1), j \in 1..(Len(b) + 1)} :
                \A i \in 1..(Len(a) + 1), j \in 1..(Len(b) + 1) : H[i][j] <= v

\* C15: the best score is >= 0; the function returns None if and only if
\* the best score is 0; with a positive best score, wherever the best cell
\* lies, it returns 1-based endpoints with 1 <= a_start <= a_end <= len(a)
\* and 1 <= b_start <= b_end <= len(b).
C15_EndpointsForPositiveScore ==
    fn_called = "_smith_waterman_endpoints" =>
        /\ BestScore(fn_args.a, fn_args.b) >= 0
        /\ ~fn_result.raised
        /\ (fn_result.value = << >>) <=> (BestScore(fn_args.a, fn_args.b) = 0)
        /\ fn_result.value # << >> =>
              /\ 1 <= fn_result.value[1]
              /\ fn_result.value[1] <= fn_result.value[2]
              /\ fn_result.value[2] <= Len(fn_args.a)
              /\ 1 <= fn_result.value[3]
              /\ fn_result.value[3] <= fn_result.value[4]
              /\ fn_result.value[4] <= Len(fn_args.b)

\* C16: a non-empty string over A, C, G, T aligned to itself spans the
\* whole string in both sequences, with score 2 * len(s).
C16_SelfAlignmentSpansAll ==
    (/\ fn_called = "_smith_waterman_endpoints"
     /\ fn_args.a = fn_args.b
     /\ fn_args.a # << >>) =>
        /\ ~fn_result.raised
        /\ fn_result.value = <<1, Len(fn_args.a), 1, Len(fn_args.a)>>
        /\ BestScore(fn_args.a, fn_args.a) = 2 * Len(fn_args.a)

\* ACGTACGTACGT against itself: 1..12 in both, score 24
C16_Witness ==
    /\ fn_called = "_smith_waterman_endpoints"
    /\ fn_args.a = ExampleString
    /\ fn_args.b = ExampleString
    /\ fn_result.value = <<1, 12, 1, 12>>
    /\ BestScore(ExampleString, ExampleString) = 24

EqualLength(rows) == \A k \in DOMAIN rows : Len(rows[k]) = Len(rows[1])

\* C17: for a non-empty list of rows of one length the consensus has the
\* length of the alignment, and each column holds a base A, C, G or T whose
\* case-insensitive count in the column is the highest (gaps and ambiguity
\* codes not counted), or N when no row holds a base there; rows of
\* differing length make the call fail.
C17_ColumnwiseMajority ==
    fn_called = "_consensus_from_entries" =>
        LET rows == fn_args.aligned_seqs
            out == fn_result.value
        IN  IF EqualLength(rows)
            THEN /\ ~fn_result.raised
                 /\ Len(out) = Len(rows[1])
                 /\ \A i \in 1..Len(rows[1]) :
                       IF \E b \in BaseSet : ColumnCount(rows, i, b) > 0
                       THEN /\ out[i] \in BaseSet
                            /\ \A b \in BaseSet :
                                  ColumnCount(rows, i, out[i]) >= ColumnCount(rows, i, b)
                       ELSE out[i] = "N"
            ELSE fn_result.raised

\* a column whose majority shows only when the two cases are counted together
C17_Witness ==
    /\ fn_called = "_consensus_from_entries"
    /\ fn_args.aligned_seqs = <<<<"a">>, <<"C">>, <<"A">>, <<"-">>>>
    /\ fn_result = [raised |-> FALSE, value |-> <<"A">>]

C17_RaggedWitness ==
    /\ fn_called = "_consensus_from_entries"
    /\ ~EqualLength(fn_args.aligned_seqs)
    /\ fn_result.raised

\* the columns of s..e (1-based) where both rows hold A, C, G or T, and those
\* of them where the two bases differ
ComparableCols(c, n, s, e) ==
    {i \in s..e : i <= Len(c) /\ upper(c[i]) \in BaseSet /\ upper(n[i]) \in BaseSet}
MismatchCols(c, n, s, e) == {i \in ComparableCols(c, n, s, e) : upper(c[i]) # upper(n[i])}

\* mis / comp of the columns s..e, 0.0 where no column is comparable
RangeRatio(c, n, s, e) ==
    IF ComparableCols(c, n, s, e) = {} THEN <<0, 1>>
    ELSE <<Cardinality(MismatchCols(c, n, s, e)), Cardinality(ComparableCols(c, n, s, e))>>

\* max(0.35, min(thr, global_ratio + 0.25))
AdaptiveThreshold(c, n, thr) ==
    LET g == RangeRatio(c, n, 1, Len(n))
        raised == <<4 * g[1] + g[2], 4 * g[2]>>
        capped == IF raised[1] * thr[2] < thr[1] * raised[2] THEN raised ELSE thr
    IN  IF capped[1] * 20 < 7 * capped[2] THEN <<7, 20>> ELSE capped

RatioBelow(r, t) == r[1] * t[2] < t[1] * r[2]

BelowEverywhere(c, n, thr) ==
    \A s \in 1..Len(n) : \A e \in s..Len(n) :
        RatioBelow(RangeRatio(c, n, s, e), AdaptiveThreshold(c, n, thr))

\* C18: the detector returns None for every consensus/candidate pair whose
\* mismatch ratio among comparable columns is below the adaptive threshold
\* in every column range, whether or not a window fits the rows (the
\* sliding-window stage and the maximum-subarray fallback); two identical
\* rows of any length give no block.
C18_NoBlockBelowThreshold ==
    fn_called = "_detect_inversion_block" =>
        /\ (Len(fn_args.consensus_aln) = Len(fn_args.new_aln)
            /\ BelowEverywhere(fn_args.consensus_aln, fn_args.new_aln, fn_args.thr))
              => fn_result = << >>
        /\ fn_args.consensus_aln = fn_args.new_aln => fn_result = << >>

\* rows long enough for the fallback, with a gap, an N and a base in two cases
C18_Witness ==
    /\ fn_called = "_detect_inversion_block"
    /\ Len(fn_args.new_aln) >= KadaneMin + 2
    /\ fn_args.consensus_aln[1] = "N"
    /\ \E i \in DOMAIN fn_args.new_aln : fn_args.new_aln[i] = "-"
    /\ Cardinality(ComparableCols(fn_args.consensus_aln, fn_args.new_aln,
                                  1, Len(fn_args.new_aln))) >= KadaneMin
    /\ BelowEverywhere(fn_args.consensus_aln, fn_args.new_aln, fn_args.thr)
    /\ fn_result = << >>

\* a block is returned for some pair
C18_BlockFound ==
    /\ fn_called = "_detect_inversion_block"
    /\ fn_result # << >>
    /\ fn_args.window > Len(fn_args.new_aln)

\* the result inter / uni is a ratio in [0, 1]; IsOne: it is 1.0
InUnitInterval(r) == r[2] > 0 /\ 0 <= r[1] /\ r[1] <= r[2]
IsOne(r) == r[2] > 0 /\ r[1] = r[2]
SelfCall == fn_args.s1 = fn_args.s2 /\ Len(fn_args.s1) >= fn_args.k

RECURSIVE SumOver(_, _)
SumOver(counts, keys) ==
    IF keys = {} THEN 0
    ELSE LET k == CHOOSE x \in keys : TRUE
         IN  counts[k] + SumOver(counts, keys \ {k})

RECURSIVE SymbolsConsumed(_, _)
\* the pileup symbols the loop reads from index i on: one for each iteration
SymbolsConsumed(bases, i) ==
    IF i >= Len(bases) THEN 0
    ELSE LET s == PileupStep(bases, i, [k \in PileupKeys |-> 0])
         IN  1 + (IF s.stop THEN 0 ELSE SymbolsConsumed(bases, s.i))

\* C20: for every pileup row the counts of all the categories add up to the
\* number of pileup symbols consumed while parsing the base-call field.
C20_CountsSumToSymbols ==
    (fn_called = "parse_pileup_line" /\ ~fn_result.raised) =>
        SumOver(fn_result.counts, PileupKeys) = SymbolsConsumed(fn_args.line[5], 0)

\* the same for the rows that hold no '*', no ambiguity code and no indel
\* without a length
C20_PlainRowsSumToSymbols ==
    (/\ fn_called = "parse_pileup_line"
     /\ ~fn_result.raised
     /\ \A i \in DOMAIN fn_args.line[5] :
           /\ fn_args.line[5][i] \notin {"*", "R"}
           /\ fn_args.line[5][i] \in {"+", "-"} =>
                 (i < Len(fn_args.line[5]) /\ IsDigit(fn_args.line[5][i + 1])))
      => SumOver(fn_result.counts, PileupKeys) = SymbolsConsumed(fn_args.line[5], 0)

\* the 1-based positions q_st, q_en, c_st, c_en of the block of the call
RefPositions ==
    BlockPositions(fn_args.consensus_aln, fn_args.new_aln, fn_args.s_col, fn_args.e_col)

\* the 1-based position, in the ungapped candidate, of the last base of the
\* left anchor of the MEM refiner (0: no anchor): the left flank starts at
\* position max(1, q_st - flank_nt), so its 0-based index x is position
\* max(1, q_st - flank_nt) + x
MemLeftAnchorEnd(c, n, p) ==
    LET qL0 == Max(1, p[1] - MemFlank)
        cL0 == Max(1, p[3] - MemFlank)
        left_new == Slice(_ungap(n), qL0 - 1, Min(Len(_ungap(n)), p[1] - 1 + Post))
        left_cons == Slice(_ungap(c), cL0 - 1, Min(Len(_ungap(c)), p[3] - 1 + Post))
        x == IF Len(left_cons) >= MemKMin /\ Len(left_new) >= MemKMin
             THEN LeftAnchor(left_cons, left_new, MemKInit, MemKMin, MemSearchSpan)
             ELSE -1
    IN  IF x = -1 THEN 0 ELSE qL0 + x

\* the same for the first base of the right anchor
MemRightAnchorStart(c, n, p) ==
    LET qR0 == Max(1, p[2] + 1 - Post)
        cR0 == Max(1, p[4] + 1 - Post)
        right_new == Slice(_ungap(n), qR0 - 1, Min(Len(_ungap(n)), p[2] + MemFlank))
        right_cons == Slice(_ungap(c), cR0 - 1, Min(Len(_ungap(c)), p[4] + MemFlank))
        x == IF Len(right_cons) >= MemKMin /\ Len(right_new) >= MemKMin
             THEN RightAnchor(right_cons, right_new, MemKInit, MemKMin, MemSearchSpan)
             ELSE -1
    IN  IF x = -1 THEN 0 ELSE qR0 + x

\* the positions where a k-mer without N of the candidate's left flank
\* [q_st - flank, q_st) ends that also occurs in the consensus's left flank
SimpleLeftEnds(c, n, p) ==
    {e \in (Max(1, p[1] - AnchorFlank) + AnchorK - 1)..(p[1] - 1) :
        /\ ~HasN(SubSeq(_ungap(n), e - AnchorK + 1, e))
        /\ p[3] - Max(1, p[3] - AnchorFlank) >= AnchorK
        /\ Contains(Slice(_ungap(c), Max(1, p[3] - AnchorFlank) - 1, p[3] - 1),
                    SubSeq(_ungap(n), e - AnchorK + 1, e))}

\* the positions where such a k-mer of the right flank (q_en, q_en + flank]
\* starts
SimpleRightStarts(c, n, p) ==
    {s \in (p[2] + 1)..(Min(Len(_ungap(n)), p[2] + AnchorFlank) - AnchorK + 1) :
        /\ ~HasN(SubSeq(_ungap(n), s, s + AnchorK - 1))
        /\ Min(Len(_ungap(c)), p[4] + AnchorFlank) - p[4] >= AnchorK
        /\ Contains(Slice(_ungap(c), p[4], Min(Len(_ungap(c)), p[4] + AnchorFlank)),
                    SubSeq(_ungap(n), s, s + AnchorK - 1))}

SetMax(S) == CHOOSE x \in S : \A y \in S : x >= y
SetMin(S) == CHOOSE x \in S : \A y \in S : x <= y

\* the simple refiner: the cut start is the end of the left anchor nearest
\* the border plus 1, the cut end the start of the right anchor nearest the
\* border minus 1
C21_SimpleAnchorsBoundTheCut ==
    (fn_called = "refine_cutpoints" /\ fn_result.simple # << >>) =>
        LET c == fn_args.consensus_aln
            n == fn_args.new_aln
        IN  /\ SimpleLeftEnds(c, n, RefPositions) # {}
                 => fn_result.simple[1] = SetMax(SimpleLeftEnds(c, n, RefPositions)) + 1
            /\ SimpleRightStarts(c, n, RefPositions) # {}
                 => fn_result.simple[2] = SetMin(SimpleRightStarts(c, n, RefPositions)) - 1

\* the same for the MEM refiner
C21_MemAnchorsBoundTheCut ==
    (fn_called = "refine_cutpoints" /\ fn_result.mem # << >>) =>
        LET c == fn_args.consensus_aln
            n == fn_args.new_aln
        IN  /\ MemLeftAnchorEnd(c, n, RefPositions) # 0
                 => fn_result.mem[1] = MemLeftAnchorEnd(c, n, RefPositions) + 1
            /\ MemRightAnchorStart(c, n, RefPositions) # 0
                 => fn_result.mem[2] = MemRightAnchorStart(c, n, RefPositions) - 1

\* C21: whenever a refiner (MEM anchors, or simple exact k-mer anchors)
\* finds a left-border anchor, the refined cut start is the 1-based position
\* of the anchor's last base in the ungapped candidate plus 1; whenever it
\* finds a right-border anchor, the refined cut end is the position of the
\* anchor's first base minus 1.
C21_AnchorsBoundTheCut == C21_MemAnchorsBoundTheCut /\ C21_SimpleAnchorsBoundTheCut

\* the MEM search found an anchor on neither border of the block
NoMemAnchor ==
    \/ RefPositions = << >>
    \/ /\ MemLeftAnchorEnd(fn_args.consensus_aln, fn_args.new_aln, RefPositions) = 0
       /\ MemRightAnchorStart(fn_args.consensus_aln, fn_args.new_aln, RefPositions) = 0

\* the else branch of "if refined:" was taken: the cuts used are not those
\* of the MEM refiner
SimpleAttempted == fn_result.stage # "mem"

\* C22: the simple exact k-mer anchor strategy is attempted whenever the
\* anchor search with extension finds no anchor on either border, and only
\* when the first strategy produced no refinement.
C22_SimpleTriedWhenMemFindsNothing ==
    fn_called = "refine_cutpoints" =>
        /\ NoMemAnchor => SimpleAttempted
        /\ SimpleAttempted => fn_result.mem = << >>

\* the second half alone
C22_SimpleTriedOnlyAfterMemFailed ==
    (fn_called = "refine_cutpoints" /\ SimpleAttempted) => fn_result.mem = << >>

\* the windows the sliding stage visits: 0-based first columns
WindowStarts ==
    {s \in 0..(Len(fn_args.new_aln) - fn_args.window) : s % fn_args.step = 0}

\* the window starting at column s (0-based) is in bad_windows
Qualifies(s) ==
    \E k \in DOMAIN fn_result : fn_result[k] = <<s, s + fn_args.window - 1>>

HalfComparable(s) ==
    2 * Cardinality(ComparableCols(fn_args.consensus_aln, fn_args.new_aln,
                                   s + 1, s + fn_args.window)) >= fn_args.window

WindowRatio(s) ==
    RangeRatio(fn_args.consensus_aln, fn_args.new_aln, s + 1, s + fn_args.window)

WindowThreshold ==
    AdaptiveThreshold(fn_args.consensus_aln, fn_args.new_aln, fn_args.thr)

\* C23 as stated: a window qualifies if and only if at least half of its
\* columns are comparable and its mismatch ratio strictly exceeds the
\* adaptive threshold; a ratio equal to the threshold does not qualify.
C23_WindowQualifiesAboveThreshold ==
    fn_called = "bad_windows" =>
        \A s \in WindowStarts :
            Qualifies(s) <=> (HalfComparable(s) /\ RatioBelow(WindowThreshold, WindowRatio(s)))

\* C23 amended: a window qualifies if and only if at least half of its
\* columns are comparable and its mismatch ratio is at least the adaptive
\* threshold; a ratio equal to the threshold qualifies.
C23_WindowQualifiesAtThreshold ==
    fn_called = "bad_windows" =>
        /\ \A s \in WindowStarts :
              Qualifies(s) <=> (HalfComparable(s) /\ ~RatioBelow(WindowRatio(s), WindowThreshold))
        /\ \A k \in DOMAIN fn_result :
              fn_result[k][1] \in WindowStarts /\ Qualifies(fn_result[k][1])

\* a window whose ratio equals the threshold, in the list
C23_Witness ==
    /\ fn_called = "bad_windows"
    /\ \E s \in WindowStarts :
          /\ Qualifies(s)
          /\ WindowRatio(s)[1] * WindowThreshold[2] = WindowThreshold[1] * WindowRatio(s)[2]
          /\ WindowRatio(s)[1] > 0

\* windows k and k + 1 of the list are within one step of each other
Linked(bad, k, step) == bad[k + 1][1] <= bad[k][2] + step

\* the runs of linked windows that no further window extends
MergedBlocks(bad, step) ==
    {<<bad[i][1], bad[j][2]>> : i \in DOMAIN bad, j \in DOMAIN bad} \cap
    {b \in (0..Len(fn_args.new_aln)) \X (0..Len(fn_args.new_aln)) :
        \E i \in DOMAIN bad : \E j \in i..Len(bad) :
            /\ b = <<bad[i][1], bad[j][2]>>
            /\ (i = 1 \/ ~Linked(bad, i - 1, step))
            /\ (j = Len(bad) \/ ~Linked(bad, j, step))
            /\ \A k \in i..(j - 1) : Linked(bad, k, step)}

\* the comparable positions of the columns b[1]..b[2] (0-based)
BlockComparable(b) ==
    Cardinality(ComparableCols(fn_args.consensus_aln, fn_args.new_aln, b[1] + 1, b[2] + 1))

\* best is a block of `eligible` with the most comparable positions, or
\* nothing where no block is eligible
MostComparableOf(eligible, best) ==
    IF eligible = {} THEN best = << >>
    ELSE /\ best \in eligible
         /\ \A b \in eligible : BlockComparable(best) >= BlockComparable(b)

\* C24 as stated: qualifying windows within one step of each other are
\* merged, and the block returned is the merged block with the most
\* comparable positions among those that span at least min_span columns.
C24_WidestBlockOfEnoughColumns ==
    fn_called = "window_blocks" =>
        /\ {fn_result.merged[k] : k \in DOMAIN fn_result.merged}
              = MergedBlocks(fn_result.bad_windows, fn_args.step)
        /\ MostComparableOf({b \in MergedBlocks(fn_result.bad_windows, fn_args.step) :
                                b[2] - b[1] + 1 >= fn_args.min_span},
                            fn_result.best)

\* C24 amended: the same, among the merged blocks that hold at least
\* min_span comparable positions.
C24_WidestBlockOfEnoughComparable ==
    fn_called = "window_blocks" =>
        /\ {fn_result.merged[k] : k \in DOMAIN fn_result.merged}
              = MergedBlocks(fn_result.bad_windows, fn_args.step)
        /\ MostComparableOf({b \in MergedBlocks(fn_result.bad_windows, fn_args.step) :
                                BlockComparable(b) >= fn_args.min_span},
                            fn_result.best)

\* two merged blocks, one of them of several windows, and the one with more
\* comparable positions returned
C24_Witness ==
    /\ fn_called = "window_blocks"
    /\ Len(fn_result.merged) >= 2
    /\ Len(fn_result.bad_windows) > Len(fn_result.merged)
    /\ fn_result.best # << >>
    /\ \E k \in DOMAIN fn_result.merged :
          BlockComparable(fn_result.merged[k]) < BlockComparable(fn_result.best)

\* the sum of the scores of the columns s..e (0-based): +1 for a comparable
\* mismatch, -1 for a comparable match
RangeScore(c, n, s, e) ==
    2 * Cardinality(MismatchCols(c, n, s + 1, e + 1))
      - Cardinality(ComparableCols(c, n, s + 1, e + 1))

ColumnRanges(n) == {r \in (0..(Len(n) - 1)) \X (0..(Len(n) - 1)) : r[1] <= r[2]}

\* C25: when the sliding-window stage returns nothing, the range the
\* fallback considers has the highest sum of scores of all contiguous
\* ranges, and it is returned if and only if that sum is positive and the
\* range holds at least max(min_span, KadaneMin) comparable positions; a
\* returned range has 0 <= start <= end < alignment length.
C25_FallbackReturnsBestRange ==
    (fn_called = "kadane_fallback" /\ fn_result.stage_one = << >>) =>
        LET c == fn_args.consensus_aln
            n == fn_args.new_aln
            k == fn_result.kadane
            floor == IF fn_args.min_span >= KadaneMin THEN fn_args.min_span ELSE KadaneMin
        IN  /\ \A r \in ColumnRanges(n) : RangeScore(c, n, r[1], r[2]) <= k[1]
            /\ k[1] > 0 =>
                  /\ <<k[2], k[3]>> \in ColumnRanges(n)
                  /\ RangeScore(c, n, k[2], k[3]) = k[1]
            /\ fn_result.block # << >> <=>
                  /\ k[1] > 0
                  /\ Cardinality(ComparableCols(c, n, k[2] + 1, k[3] + 1)) >= floor
            /\ fn_result.block # << >> =>
                  /\ fn_result.block = <<k[2], k[3]>>
                  /\ fn_result.block \in ColumnRanges(n)

\* a range returned by the fallback that is not the whole alignment
C25_Witness ==
    /\ fn_called = "kadane_fallback"
    /\ fn_result.stage_one = << >>
    /\ fn_result.block # << >>
    /\ fn_result.block[2] - fn_result.block[1] + 1 < Len(fn_args.new_aln)

\* a positive best sum on too few comparable positions: nothing returned
C25_TooFewComparable ==
    /\ fn_called = "kadane_fallback"
    /\ fn_result.stage_one = << >>
    /\ fn_result.kadane[1] > 0
    /\ fn_result.block = << >>

IsGap(ch) == ch \in {"-", "."}

\* the characters of row[1..i] that are not gaps: the 1-based index of
\* column i's character in the ungapped row
UngappedIndex(row, i) == Cardinality({j \in 1..i : ~IsGap(row[j])})

\* C26: the map gives -1 exactly at the columns where the row has a gap,
\* and elsewhere the 1-based index of the column's character in the row's
\* ungapped form, also for rows with ambiguity codes other than N.
C26_MapGivesUngappedIndex ==
    fn_called = "_map_alncol_to_pos" =>
        /\ Len(fn_result.col2pos) = Len(fn_args.seq_aln)
        /\ \A i \in DOMAIN fn_args.seq_aln :
              IF IsGap(fn_args.seq_aln[i])
              THEN fn_result.col2pos[i] = -1
              ELSE /\ fn_result.col2pos[i] = UngappedIndex(fn_args.seq_aln, i)
                   /\ fn_result.ungapped[fn_result.col2pos[i]] = fn_args.seq_aln[i]

\* the same for the rows over A, C, G, T, N and gaps
C26_MapOnPlainRows ==
    (/\ fn_called = "_map_alncol_to_pos"
     /\ \A i \in DOMAIN fn_args.seq_aln : fn_args.seq_aln[i] # "R") =>
        /\ Len(fn_result.col2pos) = Len(fn_args.seq_aln)
        /\ \A i \in DOMAIN fn_args.seq_aln :
              IF IsGap(fn_args.seq_aln[i])
              THEN fn_result.col2pos[i] = -1
              ELSE /\ fn_result.col2pos[i] = UngappedIndex(fn_args.seq_aln, i)
                   /\ fn_result.ungapped[fn_result.col2pos[i]] = fn_args.seq_aln[i]

\* the call has ended and its first aligner run had returned 0
FirstAlignmentSucceeded ==
    /\ pc = "done"
    /\ ret.stage \in {"micro_sw", "mafft2", "accepted", "rejected"}

\* the verdict on the alignment kept after the flip decision, and the one
\* copy it leads to: Resultados and the path returned, or
\* descartesalineamiento and None
TerminalDecision ==
    /\ loc.gated
    /\ loc.gate = _assess_alignment_quality(loc.out_best, loc.min_identity)
    /\ loc.gate.ok =>
           /\ ret = ReturnedPath(loc.next_n)
           /\ loc.next_n \in DOMAIN RES_DIR
           /\ RES_DIR[loc.next_n] = loc.written
    /\ ~loc.gate.ok =>
           /\ ret = ReturnedNone("rejected")
           /\ loc.next_n \in DOMAIN DISCARD_DIR
           /\ DISCARD_DIR[loc.next_n] = loc.written

\* C27: for every candidate whose first aligner run succeeded the quality
\* gate is evaluated once, on the alignment kept after the flip decision,
\* and one output is written: to the accepted results when the verdict is
\* accept, the call returning its path, to the discard area otherwise, the
\* call returning None.
C27_TerminalDecision == FirstAlignmentSucceeded => TerminalDecision

\* the same for the calls that no exception has left
C27_TerminalDecisionUnlessRaised ==
    (FirstAlignmentSucceeded /\ ret.kind # "raised") => TerminalDecision

\* the verdict ends the call: what follows it is the end of the process
C27_NothingAfterVerdict ==
    [][(pc = "done" /\ loc.gated) => (pc' = "idle" /\ loc' = NoLoc)]_vars

\* the step that ends such a call writes to one of the two directories only
C27_OneOutput ==
    [][(pc # "done" /\ pc' = "done" /\ loc'.gated) =>
           /\ loc'.gate.ok => DISCARD_DIR' = DISCARD_DIR
           /\ ~loc'.gate.ok => RES_DIR' = RES_DIR]_vars

\* the base that pairs with b: A with T, C with G, N with itself
Pairs(b) ==
    CASE b = "A" -> "T" [] b = "T" -> "A" [] b = "C" -> "G" [] b = "G" -> "C"
      [] b = "N" -> "N"

\* t is s with the reverse complement of s[start..end] (1-based, inclusive)
\* in place of that segment
FlippedBetween(s, t, start, end) ==
    /\ Len(t) = Len(s)
    /\ \A i \in 1..Len(s) :
          IF i < start \/ i > end THEN t[i] = s[i]
          ELSE t[i] = Pairs(s[start + end - i])

\* C28: for every sequence over A, C, G, T, N and all cut points
\* 1 <= start <= end <= len, the flip candidate has the length of the
\* sequence, equals it outside [start, end], holds the reverse complement of
\* the segment inside it, and flipping it again at the same cut points gives
\* the sequence back.
C28_FlipIsReverseComplementAndInvolution ==
    fn_called = "_flip_segment_in_oneline" =>
        /\ ~fn_result.once.raised
        /\ ~fn_result.twice.raised
        /\ fn_result.once.text[1] = fn_args.oneline_fa[1]
        /\ FlippedBetween(fn_args.oneline_fa[2], fn_result.once.text[2],
                          fn_args.start_1based, fn_args.end_1based)
        /\ fn_result.twice.text = fn_args.oneline_fa

\* a segment of several bases strictly inside the sequence was flipped,
\* which changed the sequence
C28_Witness ==
    /\ fn_called = "_flip_segment_in_oneline"
    /\ 1 < fn_args.start_1based
    /\ fn_args.start_1based < fn_args.end_1based
    /\ fn_args.end_1based < Len(fn_args.oneline_fa[2])
    /\ fn_result.once.text # fn_args.oneline_fa

\* the rows of column i (1-based) that hold base b in either case
RowsWith(prev, i, b) == {r \in DOMAIN prev : prev[r][i] \in {b, lower(b)}}

\* two bases share the highest count of column i
TiedColumn(prev, i) ==
    \E b \in BaseSet, c \in BaseSet :
        /\ b # c
        /\ RowsWith(prev, i, b) # {}
        /\ Cardinality(RowsWith(prev, i, b)) = Cardinality(RowsWith(prev, i, c))
        /\ \A d \in BaseSet :
              Cardinality(RowsWith(prev, i, d)) <= Cardinality(RowsWith(prev, i, b))

DiscardStep ==
    /\ \A n \in DOMAIN DISCARD_DIR :
          n \in DOMAIN DISCARD_DIR' /\ DISCARD_DIR'[n] = DISCARD_DIR[n]
    /\ (pc # "done" /\ pc' = "done" /\ ret'.stage = "rejected") =>
           /\ loc'.next_n \notin DOMAIN DISCARD_DIR
           /\ DOMAIN DISCARD_DIR' = DOMAIN DISCARD_DIR \cup {loc'.next_n}

\* C30: after any sequence of candidates the discard area holds one file per
\* rejected candidate: a later rejection, also right after another one,
\* never overwrites the discard file of an earlier rejected candidate.
C30_RejectedStayInspectable == [][DiscardStep]_vars

\* a rejection leaves the accepted results alone and what it writes is the
\* oneline copy of the alignment it was gated on
C30_RejectionWritesItsCopy ==
    [][(pc # "done" /\ pc' = "done" /\ ret'.stage = "rejected") =>
           /\ RES_DIR' = RES_DIR
           /\ DISCARD_DIR'[loc'.next_n] = loc'.written]_vars
=============================================================================
